---------------------------- MODULE Spec2Model ----------------------------
(***************************************************************************)
(* A model of the flywheel-ml control plane:                               *)
(*   - the execution engine, its pipeline runners and the control RPCs     *)
(*     that change the persisted pipeline status        (specification Spec)*)
(*   - the circuit breaker, called by one caller at a time                 *)
(*                                                (specification SpecBreaker)*)
(*   - the circuit breaker, called by concurrent threads                   *)
(*                                            (specification SpecBreakerConc)*)
(*   - the prediction / feedback rows of the store   (specification SpecStore)*)
(*   - the engine started over a store that already holds pipelines        *)
(*                                                   (specification SpecTick)*)
(*   - one pipeline runner over stage executors that return any result     *)
(*                                                 (specification SpecRunner)*)
(*   - the predict RPC and the feedback join over the prediction rows      *)
(*                                                   (specification SpecFlow)*)
(*   - compute_correctness on any (prediction, ground truth) pair          *)
(*                                                (specification SpecCorrect)*)
(*   - the create_pipeline RPC over named pipelines                        *)
(*                                                (specification SpecControl)*)
(*   - the drift_events table                       (specification SpecDrift)*)
(*   - one predict_stream call                     (specification SpecStream)*)
(*   - the reservoir sampler                      (specification SpecSampler)*)
(*   - compute_psi                                    (specification SpecPsi)*)
(*   - the drift detector                        (specification SpecDetector)*)
(*   - the model_versions table                     (specification SpecModel)*)
(*   - the training data exporter                  (specification SpecExport)*)
(*   - the inference transform behind the breaker                          *)
(*                                              (specification SpecInference)*)
(*   - the health RPCs over the drift_events table (specification SpecHealth)*)
(*   - reconcile over more running pipelines than one page                 *)
(*                                                   (specification SpecPage)*)
(*   - the pipeline registry                     (specification SpecRegistry)*)
(*   - the batch processor                          (specification SpecBatch)*)
(*   - batch sampling over the reservoir      (specification SpecSampleBatch)*)
(***************************************************************************)
EXTENDS Integers, Sequences, FiniteSets, Bags, TLC

VARIABLES
    \* ---- persistence: the pipelines table
    pipelines,          \* id -> [status, spec_ok]; the rows that exist
    created,            \* number of pipeline ids handed out so far (ids are never reused)
    \* ---- ExecutionEngine
    engine_pc,          \* where reconcile() is: "idle" | "listed"
    running_pipelines,  \* reconcile's local: the listed models, [id, spec_ok]
    last_reconcile,     \* result of the last reconcile() that returned: "none" | "ok" | "err"
    \* ---- PipelineRunner objects and their spawned tasks
    robj,               \* bag of runner objects [pipeline, attached, running, pc, stage, abort]
    \* ---- CircuitBreaker
    state,              \* CircuitBreaker.state
    failure_count,      \* CircuitBreaker.failure_count (u32)
    success_count,      \* CircuitBreaker.success_count (u32)
    last_failure_time,  \* CircuitBreaker.last_failure_time: None or an instant
    config,             \* CircuitBreaker.config
    now,                \* the monotonic clock
    last_call,          \* the last call that returned: [op, ret]
    obs,                \* observer: [streak, opened_at, opened_from]
    \* ---- CircuitBreaker, concurrent callers
    thr,                \* thread -> [pc, op, st, count] : position inside its call
    lft_readers,        \* threads holding the read lock of last_failure_time
    hist,               \* thread -> the calls it has started, in order
    \* ---- persistence: predictions and feedback
    predictions,        \* id -> the row: [feedback_id, ...]
    feedback,           \* id -> [prediction_id]
    last_link,          \* the last link_feedback call: [prediction, feedback, ok, before]
    \* ---- one PipelineRunner with stage executors that may fail
    manifest,           \* manifest.spec.stages: the stage types, in order
    rn,                 \* the runner: [running, pc, idx, records_in_cycle,
                        \*   records_processed, predictions_made, errors]
    rh,                 \* history of the runner: [cycles, cycles_at_stop, invoked,
                        \*   returned_ok, returned_ml, failed_cycles,
                        \*   failed_at]
    \* ---- InferenceService::predict and FeedbackJoinTransform
    active_models,      \* the model ids that have an Active model version
    max_join_delay_secs,\* FeedbackJoinTransform.max_join_delay_secs
    utc,                \* the wall clock (chrono::Utc::now), in ticks
    last_predict,       \* the last predict call: [model_id, status, prediction_id]
    last_join,          \* the last process call: [feedback, outcome, is_correct]
    \* ---- LabeledExample::compute_correctness
    cc,                 \* the last call: [called, prediction, ground_truth, is_correct]
    \* ---- ControlService::create_pipeline
    last_create,        \* the last create_pipeline call: [status, pipeline_id]
    \* ---- DriftEventRepo
    drift_events,       \* id -> the row: [pipeline_id, model_id, resolved_at]
    last_drift_op,      \* the last DriftEventRepo call: [op, ok]
    \* ---- InferenceService::predict_stream
    stream_sent,        \* the requests the client has sent, in order: model ids
    stream_read,        \* how many of them stream.message() has returned
    stream_closed,      \* the client has half-closed the stream
    stream_pc,          \* the response stream: "open" | "ended"
    stream_out,         \* the items of the response stream, in order
    \* ---- Sampler with a ReservoirSampling config
    sampling_size,      \* SamplingConfig::ReservoirSampling.size
    samp,               \* Sampler.reservoir: the ReservoirSampler [size, reservoir, count]
    samp_added,         \* the examples added to it since it was built
    examples_made,      \* the number of examples passed to the sampler so far
    drained,            \* the last drain_reservoir call: [n, samples, count]
    \* ---- compute_psi
    psi_in,             \* the arguments of compute_psi: [kind, reference, current, bins]
    psi_out,            \* its result: [called, ref_hist, cur_hist, positive]
    \* ---- DriftDetector
    det,                \* the DriftDetector: [config, has_reference, window_len, tracker, baseline_accuracy]
    det_adds,           \* the number of add_value calls made on it
    det_result,         \* the last check_drift call: [checked, psi] and the DriftResult
    \* ---- the model_versions table and its latest-active lookup
    model_versions,     \* rows of the model_versions table
    last_find,          \* the last operation on model_versions and its result
    \* ---- the local training-data exporter
    files,              \* files under the output directory of the exporters
    exported,           \* number of examples handed to export_batch so far
    export_millis,      \* Utc::now().timestamp_millis() of the exporters
    \* ---- InferenceTransform over its circuit breaker
    last_process,       \* the last InferenceTransform::process call: [can, model_calls, recorded, ret]
    \* ---- the drift reports of the health service
    last_health,        \* the last drift report: [rpc, pipeline_id, status, is_drifted, event]
    \* ---- the in-memory pipeline registry
    registry_pipelines, \* PipelineRegistry.pipelines: id -> entry
    by_name,            \* PipelineRegistry.by_name: <<name, namespace>> -> id
    last_get,           \* the last registry call and what it returned
    \* ---- the batch processor
    bp,                 \* the BatchProcessor: [batch_size, buffer]
    bh,                 \* history of its calls: [added, returned, op, ret, flushes]
    \* ---- Sampler::sample on a reservoir sampler
    sampled_out,        \* the examples returned by Sampler::sample calls so far
    last_sample         \* what the last Sampler::sample call returned

engineVars == <<pipelines, created, engine_pc, running_pipelines,
                last_reconcile, robj>>
breakerVars == <<state, failure_count, success_count, last_failure_time,
                 config, now, last_call, obs>>
concVars == <<thr, lft_readers, hist>>
storeVars == <<predictions, feedback, last_link>>
runVars == <<manifest, rn, rh>>
flowVars == <<active_models, max_join_delay_secs, utc, last_predict, last_join>>
\* The variables of the control plane, and those of the library components.
appVars == <<engineVars, breakerVars, concVars, storeVars, runVars, flowVars>>
corrVars == <<cc>>
catalogVars == <<last_create>>
driftVars == <<drift_events, last_drift_op>>
streamVars == <<stream_sent, stream_read, stream_closed, stream_pc, stream_out>>
sampVars == <<sampling_size, samp, samp_added, examples_made, drained>>
psiVars == <<psi_in, psi_out>>
detVars == <<det, det_adds, det_result>>
modelVars == <<model_versions, last_find>>
exportVars == <<files, exported, export_millis>>
inferVars == <<last_process>>
healthVars == <<last_health>>
registryVars == <<registry_pipelines, by_name, last_get>>
batchVars == <<bp, bh>>
handedVars == <<sampled_out, last_sample>>
libVars == <<corrVars, catalogVars, driftVars, streamVars, sampVars, psiVars, detVars, modelVars, exportVars, inferVars, healthVars, registryVars, batchVars, handedVars>>
libOtherThanCorr ==
    <<catalogVars, driftVars, streamVars, sampVars,
      psiVars, detVars, modelVars, exportVars,
      inferVars, healthVars, registryVars, batchVars,
      handedVars>>
otherThanCorr == <<appVars, libOtherThanCorr>>
libOtherThanCatalog ==
    <<corrVars, driftVars, streamVars, sampVars,
      psiVars, detVars, modelVars, exportVars,
      inferVars, healthVars, registryVars, batchVars,
      handedVars>>
otherThanCatalog == <<appVars, libOtherThanCatalog>>
libOtherThanDrift ==
    <<corrVars, catalogVars, streamVars, sampVars,
      psiVars, detVars, modelVars, exportVars,
      inferVars, healthVars, registryVars, batchVars,
      handedVars>>
otherThanDrift == <<appVars, libOtherThanDrift>>
libOtherThanStream ==
    <<corrVars, catalogVars, driftVars, sampVars,
      psiVars, detVars, modelVars, exportVars,
      inferVars, healthVars, registryVars, batchVars,
      handedVars>>
otherThanStream == <<appVars, libOtherThanStream>>
libOtherThanSamp ==
    <<corrVars, catalogVars, driftVars, streamVars,
      psiVars, detVars, modelVars, exportVars,
      inferVars, healthVars, registryVars, batchVars,
      handedVars>>
otherThanSamp == <<appVars, libOtherThanSamp>>
libOtherThanPsi ==
    <<corrVars, catalogVars, driftVars, streamVars,
      sampVars, detVars, modelVars, exportVars,
      inferVars, healthVars, registryVars, batchVars,
      handedVars>>
otherThanPsi == <<appVars, libOtherThanPsi>>
libOtherThanDet ==
    <<corrVars, catalogVars, driftVars, streamVars,
      sampVars, psiVars, modelVars, exportVars,
      inferVars, healthVars, registryVars, batchVars,
      handedVars>>
otherThanDet == <<appVars, libOtherThanDet>>
libOtherThanModel ==
    <<corrVars, catalogVars, driftVars, streamVars,
      sampVars, psiVars, detVars, exportVars,
      inferVars, healthVars, registryVars, batchVars,
      handedVars>>
otherThanModel == <<appVars, libOtherThanModel>>
libOtherThanExport ==
    <<corrVars, catalogVars, driftVars, streamVars,
      sampVars, psiVars, detVars, modelVars,
      inferVars, healthVars, registryVars, batchVars,
      handedVars>>
otherThanExport == <<appVars, libOtherThanExport>>
libOtherThanInfer ==
    <<corrVars, catalogVars, driftVars, streamVars,
      sampVars, psiVars, detVars, modelVars,
      exportVars, healthVars, registryVars, batchVars,
      handedVars>>
otherThanInfer == <<appVars, libOtherThanInfer>>
libOtherThanHealth ==
    <<corrVars, catalogVars, driftVars, streamVars,
      sampVars, psiVars, detVars, modelVars,
      exportVars, inferVars, registryVars, batchVars,
      handedVars>>
otherThanHealth == <<appVars, libOtherThanHealth>>
libOtherThanRegistry ==
    <<corrVars, catalogVars, driftVars, streamVars,
      sampVars, psiVars, detVars, modelVars,
      exportVars, inferVars, healthVars, batchVars,
      handedVars>>
otherThanRegistry == <<appVars, libOtherThanRegistry>>
libOtherThanBatch ==
    <<corrVars, catalogVars, driftVars, streamVars,
      sampVars, psiVars, detVars, modelVars,
      exportVars, inferVars, healthVars, registryVars,
      handedVars>>
otherThanBatch == <<appVars, libOtherThanBatch>>
libOtherThanHanded ==
    <<corrVars, catalogVars, driftVars, streamVars,
      sampVars, psiVars, detVars, modelVars,
      exportVars, inferVars, healthVars, registryVars,
      batchVars>>
otherThanHanded == <<appVars, libOtherThanHanded>>
vars == <<engineVars, breakerVars, concVars, storeVars, runVars, flowVars, libVars>>

\* Option<T>: None, or Some(x) holding x.
None == << >>
Some(x) == <<x>>
Unwrap(opt) == opt[1]

-----------------------------------------------------------------------------
(***************************************************************************)
(* Bounds of the model.                                                    *)
(***************************************************************************)
MaxPipelines == 1       \* pipeline ids ever created
MaxRunners == 2         \* PipelineRunner objects alive at the same time
MaxRows == 2            \* pipeline rows in the store when the engine starts
NumStages == 2          \* stages of a manifest

MaxThreshold == 2       \* failure_threshold and success_threshold are in 1..MaxThreshold
MaxTimeout == 1         \* reset_timeout is in 0..MaxTimeout clock ticks
MaxTime == 3            \* the clock runs from 0 to MaxTime
NumThreads == 2         \* concurrent callers of one breaker
MaxCalls == 4           \* calls the concurrent callers make in total
MaxPredictions == 2     \* rows of the predictions table
MaxFeedback == 2        \* rows of the feedback table
MaxRecords == 1         \* records_processed one stage execution returns
MaxCycles == 2          \* cycles one runner starts
MaxUtc == 2             \* the wall clock, in ticks
MaxDelaySecs == 1       \* max_join_delay_secs a join transform is built with
TicksPerSecond == 2     \* clock ticks in one second
MaxDriftEvents == 3      \* rows of the drift_events table
MaxStreamRequests == 3  \* requests a client sends on one stream
MaxReservoirSize == 2   \* size of a ReservoirSampling config is in 0..MaxReservoirSize
MaxExamples == 4        \* labeled examples ever passed to one sampler
MaxDrains == 2          \* drain_reservoir calls on one sampler
MaxHalfSize == 5        \* a reference dataset has 2, 4, .. 2 * MaxHalfSize values
MaxExtraAdds == 1       \* add_value calls beyond the MinWindow-th
MaxVersions == 2        \* rows of model_versions
MaxDeployTime == 2      \* largest deployed_at instant
MaxExported == 3        \* labeled examples handed to export_batch
MaxMillis == 1          \* largest millisecond instant of the export clock
MaxEntryIds == 2        \* ids of the entries given to the registry
MaxBatchSize == 3       \* largest batch_size of a BatchProcessor
MaxAdds == 5            \* feature vectors added to one BatchProcessor
MaxSampleLen == 2       \* examples in one Sampler::sample call

PageLimit == 100        \* the limit reconcile passes to list_by_status
PsiBins == 10           \* the bins check_drift and the tests pass to compute_psi
PsiFloorDen == 10000    \* compute_psi floors a bin's share at 0.0001 = 1 / PsiFloorDen
MinWindow == 100        \* check_drift needs a window of at least 100 values

PipelineStatus == {"Pending", "Running", "Stopped", "Failed", "Disabled"}

-----------------------------------------------------------------------------
(***************************************************************************)
(* Persistence adapter: pipelines.                                         *)
(***************************************************************************)

\* The rows a list_by_status(status, limit) call may return: all rows of that
\* status when they fit the page, otherwise some `limit` of them.
\* The subsets of S that have k elements.
RECURSIVE SubsetsOfSize(_, _)
SubsetsOfSize(S, k) ==
    IF k = 0 THEN {{}}
    ELSE {A \cup {x} : A \in SubsetsOfSize(S, k - 1), x \in S} \ SubsetsOfSize(S, k - 1)

ListByStatus(status, limit) ==
    LET rows == {p \in DOMAIN pipelines : pipelines[p].status = status}
    IN  IF Cardinality(rows) <= limit
        THEN {rows}
        ELSE {rows \ left : left \in SubsetsOfSize(rows, Cardinality(rows) - limit)}

\* An update_status that writes nothing.
UpdateStatusLost(rows, ids, status) == rows

\* PipelineRepo::update_status on the rows `ids`: a row that exists is updated,
\* a missing row is an error for the caller and changes nothing.
UpdateStatus(rows, ids, status) ==
    [p \in DOMAIN rows |->
        IF p \in ids THEN [rows[p] EXCEPT !.status = status] ELSE rows[p]]

\* flywheel_ml_dsl::parser::parse_manifest on the stored spec_yaml.
ParsesManifest(model) == model.spec_ok

-----------------------------------------------------------------------------
(***************************************************************************)
(* Control RPCs.                                                           *)
(***************************************************************************)

\* create_pipeline: inserts a Pending row under a fresh id; the spec_yaml is
\* stored as given, whether or not it is a manifest.
CreatePipeline ==
    /\ created < MaxPipelines
    /\ \E ok \in BOOLEAN :
         pipelines' = (created + 1 :> [status |-> "Pending", spec_ok |-> ok])
                        @@ pipelines
    /\ created' = created + 1
    /\ UNCHANGED <<robj, engine_pc, running_pipelines, last_reconcile>>
    /\ UNCHANGED <<breakerVars, concVars, storeVars, runVars, flowVars, libVars>>

EnablePipeline(p) ==
    /\ p \in DOMAIN pipelines
    /\ pipelines' = UpdateStatus(pipelines, {p}, "Running")
    /\ UNCHANGED <<created, robj, engine_pc, running_pipelines, last_reconcile>>
    /\ UNCHANGED <<breakerVars, concVars, storeVars, runVars, flowVars, libVars>>

DisablePipeline(p) ==
    /\ p \in DOMAIN pipelines
    /\ pipelines' = UpdateStatus(pipelines, {p}, "Stopped")
    /\ UNCHANGED <<created, robj, engine_pc, running_pipelines, last_reconcile>>
    /\ UNCHANGED <<breakerVars, concVars, storeVars, runVars, flowVars, libVars>>

DeletePipeline(p) ==
    /\ p \in DOMAIN pipelines
    /\ pipelines' = [q \in DOMAIN pipelines \ {p} |-> pipelines[q]]
    /\ UNCHANGED <<created, robj, engine_pc, running_pipelines, last_reconcile>>
    /\ UNCHANGED <<breakerVars, concVars, storeVars, runVars, flowVars, libVars>>

-----------------------------------------------------------------------------
(***************************************************************************)
(* PipelineRunner.  robj is the bag of the runner objects that something   *)
(* still holds: the handle in the engine's map (attached) or the spawned   *)
(* task, which owns a clone of the Arc.                                    *)
(***************************************************************************)

\* PipelineRunner::new followed by tokio::spawn of run() and the insertion of
\* the handle: the flag starts true and the task has not been polled yet.
NewRunner(model) ==
    [pipeline |-> model.id, attached |-> TRUE, running |-> TRUE,
     pc |-> "spawned", stage |-> 0, abort |-> FALSE]

\* A stop() that does not store the flag.
RunnerStopKeepsFlag(o) == o

\* PipelineRunner::stop
RunnerStop(o) == [o EXCEPT !.running = FALSE]

\* PipelineRunner::is_running
IsRunning(o) == o.running

\* JoinHandle::abort: the task is cancelled at its next yield point.
TaskAbort(o) == [o EXCEPT !.abort = TRUE]

\* The yield points of a runner task: before its first poll, and the sleep
\* between two cycles (the stage executors return without suspending).
AtYieldPoint(o) == o.pc \in {"spawned", "sleep"}

\* A task that still executes run().
TaskLive(o) == o.pc \notin {"finished", "aborted"}

\* An object is held while its handle is in the map or its task lives.
Held(o) == o.attached \/ TaskLive(o)

\* robj with object o replaced by o2 (dropped when nothing holds o2).
Replace(o, o2) ==
    (robj (-) SetToBag({o})) (+) (IF Held(o2) THEN SetToBag({o2}) ELSE EmptyBag)

\* The head of run()'s loop, while self.is_running(): a new cycle starts at
\* the first stage, or run() returns.
LoopHead(o) ==
    IF IsRunning(o)
    THEN [o EXCEPT !.pc = "stage", !.stage = 1]
    ELSE [o EXCEPT !.pc = "finished", !.stage = 0]

\* The first poll of the task: run() logs, builds the stage context and
\* reaches the head of its loop.
RunnerStart(o) ==
    /\ BagIn(o, robj)
    /\ o.pc = "spawned"
    /\ ~o.abort
    /\ robj' = Replace(o, [o EXCEPT !.pc = "check"])
    /\ UNCHANGED <<pipelines, created, engine_pc, running_pipelines, last_reconcile>>
    /\ UNCHANGED <<breakerVars, concVars, storeVars, runVars, flowVars, libVars>>

\* The task evaluates the loop condition.
RunnerCheck(o) ==
    /\ BagIn(o, robj)
    /\ o.pc = "check"
    /\ robj' = Replace(o, LoopHead(o))
    /\ UNCHANGED <<pipelines, created, engine_pc, running_pipelines, last_reconcile>>
    /\ UNCHANGED <<breakerVars, concVars, storeVars, runVars, flowVars, libVars>>

\* execute_cycle: one stage executor runs; after the last stage the task
\* sleeps.
RunnerStage(o) ==
    /\ BagIn(o, robj)
    /\ o.pc = "stage"
    /\ robj' = IF o.stage < NumStages
               THEN Replace(o, [o EXCEPT !.stage = @ + 1])
               ELSE Replace(o, [o EXCEPT !.pc = "sleep", !.stage = 0])
    /\ UNCHANGED <<pipelines, created, engine_pc, running_pipelines, last_reconcile>>
    /\ UNCHANGED <<breakerVars, concVars, storeVars, runVars, flowVars, libVars>>

\* The sleep between two cycles is over: the task is polled again.
RunnerWake(o) ==
    /\ BagIn(o, robj)
    /\ o.pc = "sleep"
    /\ ~o.abort
    /\ robj' = Replace(o, [o EXCEPT !.pc = "check"])
    /\ UNCHANGED <<pipelines, created, engine_pc, running_pipelines, last_reconcile>>
    /\ UNCHANGED <<breakerVars, concVars, storeVars, runVars, flowVars, libVars>>

\* An aborted task is dropped at its yield point.
RunnerCancelled(o) ==
    /\ BagIn(o, robj)
    /\ o.abort
    /\ AtYieldPoint(o)
    /\ robj' = Replace(o, [o EXCEPT !.pc = "aborted"])
    /\ UNCHANGED <<pipelines, created, engine_pc, running_pipelines, last_reconcile>>
    /\ UNCHANGED <<breakerVars, concVars, storeVars, runVars, flowVars, libVars>>

-----------------------------------------------------------------------------
(***************************************************************************)
(* ExecutionEngine.                                                        *)
(***************************************************************************)

\* ExecutionEngine.runners: pipeline id -> the runner object of its handle.
Attached(objs) == {o \in BagToSet(objs) : o.attached}
MapOf(objs) ==
    [id \in {o.pipeline : o \in Attached(objs)} |->
        CHOOSE o \in Attached(objs) : o.pipeline = id]
runners == MapOf(robj)

\* reconcile, first half: list the Running pipelines.
ReconcileList ==
    /\ engine_pc = "idle"
    /\ \E page \in ListByStatus("Running", PageLimit) :
         running_pipelines' =
             {[id |-> p, spec_ok |-> pipelines[p].spec_ok] : p \in page}
    /\ engine_pc' = "listed"
    /\ UNCHANGED <<pipelines, created, robj, last_reconcile>>
    /\ UNCHANGED <<breakerVars, concVars, storeVars, runVars, flowVars, libVars>>

\* A start() that returns on the first error of reconcile().
OnReconcileErrorReturn == "exited"

\* start(): `if let Err(e) = self.reconcile().await` logs the error and goes
\* on to the sleep and the next iteration of the loop.
OnReconcileError == "idle"

\* reconcile when the listing fails: `?` returns the error, start() logs it.
ReconcileListFails ==
    /\ engine_pc = "idle"
    /\ last_reconcile' = "err"
    /\ engine_pc' = OnReconcileError
    /\ UNCHANGED <<pipelines, created, robj, running_pipelines>>
    /\ UNCHANGED <<breakerVars, concVars, storeVars, runVars, flowVars, libVars>>

\* A reconcile that stops nothing.
StopSetNone(map, running_ids) == {}

\* The runners reconcile stops: the keys of the map that are not listed.
StopSet(map, running_ids) == {id \in DOMAIN map : id \notin running_ids}

\* A reconcile that does not look for an existing runner.
StartSetAll(map, listed) == listed

\* The listed pipelines reconcile constructs a runner for: those whose id is
\* not a key of the map.
StartSet(map, listed) == {m \in listed : m.id \notin DOMAIN map}

\* What the engine does to a handle it has removed from the map.
StopHandle(o) == [TaskAbort(RunnerStop(o)) EXCEPT !.attached = FALSE]

\* The objects of `objs` that are still held.
HeldOnes(objs) == {o \in objs : Held(o)}

\* The cap on the runner objects held at once: MaxRunners, or one per
\* pipeline of the store when the store has more.
RunnerCap ==
    IF Cardinality(DOMAIN pipelines) > MaxRunners
    THEN Cardinality(DOMAIN pipelines) ELSE MaxRunners

\* reconcile, second half, under the write lock of the map: stop and remove
\* the runners that are not listed, start a runner for every listed pipeline
\* without one, mark Failed the pipelines whose manifest does not parse.
\* `faults` are the rows on which update_status returns a database error.
ReconcileApplyWith(faults) ==
    /\ engine_pc = "listed"
    /\ LET running_ids == {m.id : m \in running_pipelines}
           stopped == StopSet(runners, running_ids)
           kept == [id \in DOMAIN runners \ stopped |-> runners[id]]
           tostart == StartSet(kept, running_pipelines)
           good == {m \in tostart : ParsesManifest(m)}
           bad == {m.id : m \in tostart \ good}
           \* insert() drops the handle it overwrites: that task is detached
           replaced == {[kept[m.id] EXCEPT !.attached = FALSE] :
                            m \in {x \in good : x.id \in DOMAIN kept}}
           objs == (robj (-) SetToBag(Attached(robj)))
                     (+) SetToBag(HeldOnes({StopHandle(runners[id]) : id \in stopped}))
                     (+) SetToBag(HeldOnes(replaced))
                     (+) SetToBag({kept[id] : id \in DOMAIN kept \ {m.id : m \in good}})
                     (+) SetToBag({NewRunner(m) : m \in good})
       IN  /\ BagCardinality(objs) <= RunnerCap
           /\ robj' = objs
           \* update_status(Failed): a deleted row or a database error is logged
           /\ pipelines' = UpdateStatus(pipelines, bad \ faults, "Failed")
    /\ engine_pc' = "idle"
    /\ running_pipelines' = {}
    /\ last_reconcile' = "ok"
    /\ UNCHANGED created
    /\ UNCHANGED <<breakerVars, concVars, storeVars, runVars, flowVars, libVars>>

\* reconcile, second half, with update_status failing on any of the rows.
ReconcileApply ==
    \E faults \in SUBSET {m.id : m \in {x \in running_pipelines : ~ParsesManifest(x)}} :
        ReconcileApplyWith(faults)

\* active_count
ActiveCount == Cardinality(DOMAIN runners)

\* stop_all: drain the map, stopping every handle.
StopAll ==
    /\ Attached(robj) # {}
    /\ robj' = (robj (-) SetToBag(Attached(robj)))
                 (+) SetToBag(HeldOnes({StopHandle(o) : o \in Attached(robj)}))
    /\ UNCHANGED <<pipelines, created, engine_pc, running_pipelines, last_reconcile>>
    /\ UNCHANGED <<breakerVars, concVars, storeVars, runVars, flowVars, libVars>>

-----------------------------------------------------------------------------
(***************************************************************************)
(* CircuitBreaker, one call at a time.  A breaker value is the record      *)
(* [state, failure_count, success_count, last_failure_time].               *)
(***************************************************************************)

Breaker == [state |-> state, failure_count |-> failure_count,
            success_count |-> success_count,
            last_failure_time |-> last_failure_time]

\* CircuitBreaker::new
NewBreaker == [state |-> "Closed", failure_count |-> 0, success_count |-> 0,
               last_failure_time |-> None]

\* last_failure.elapsed() > self.config.reset_timeout, evaluated at time t.
\* (A variant that also passes when exactly reset_timeout has elapsed.)
TimedOutInclusive(last_failure, t) == t - last_failure >= config.reset_timeout
TimedOut(last_failure, t) == t - last_failure > config.reset_timeout

\* fetch_add(1) + 1 on an AtomicU32.  The counter would wrap at 2^32; a
\* breaker whose threshold is a u32 reaches its threshold before that.
Incr(n) == n + 1

\* count >= threshold, as record_failure and record_success test it.
\* (A variant that needs one more.)
ReachedStrict(count, threshold) == count > threshold
Reached(count, threshold) == count >= threshold

\* can_execute at time t: the breaker afterwards and the value returned.
DoCanExecute(b, t) ==
    CASE b.state = "Closed" -> [b |-> b, ret |-> TRUE]
      [] b.state = "HalfOpen" -> [b |-> b, ret |-> TRUE]
      [] b.state = "Open" ->
            IF b.last_failure_time # None /\ TimedOut(Unwrap(b.last_failure_time), t)
            THEN [b |-> [b EXCEPT !.state = "HalfOpen", !.success_count = 0],
                  ret |-> TRUE]
            ELSE [b |-> b, ret |-> FALSE]

\* A record_success that closes the breaker without zeroing failure_count.
DoRecordSuccessKeepsFailures(b) ==
    CASE b.state = "Closed" -> [b EXCEPT !.failure_count = 0]
      [] b.state = "HalfOpen" ->
            LET count == Incr(b.success_count)
            IN  IF Reached(count, config.success_threshold)
                THEN [b EXCEPT !.success_count = count, !.state = "Closed"]
                ELSE [b EXCEPT !.success_count = count]
      [] b.state = "Open" -> b

\* record_success
DoRecordSuccess(b) ==
    CASE b.state = "Closed" -> [b EXCEPT !.failure_count = 0]
      [] b.state = "HalfOpen" ->
            LET count == Incr(b.success_count)
            IN  IF Reached(count, config.success_threshold)
                THEN [b EXCEPT !.success_count = count, !.state = "Closed",
                               !.failure_count = 0]
                ELSE [b EXCEPT !.success_count = count]
      [] b.state = "Open" -> b

\* A record_failure that leaves HalfOpen without noting the instant.
DoRecordFailureNoInstant(b, t) ==
    CASE b.state = "Closed" ->
            LET count == Incr(b.failure_count)
            IN  IF Reached(count, config.failure_threshold)
                THEN [b EXCEPT !.failure_count = count, !.state = "Open",
                               !.last_failure_time = Some(t)]
                ELSE [b EXCEPT !.failure_count = count]
      [] b.state = "HalfOpen" -> [b EXCEPT !.state = "Open"]
      [] b.state = "Open" -> b

\* record_failure at time t
DoRecordFailure(b, t) ==
    CASE b.state = "Closed" ->
            LET count == Incr(b.failure_count)
            IN  IF Reached(count, config.failure_threshold)
                THEN [b EXCEPT !.failure_count = count, !.state = "Open",
                               !.last_failure_time = Some(t)]
                ELSE [b EXCEPT !.failure_count = count]
      [] b.state = "HalfOpen" ->
            [b EXCEPT !.state = "Open", !.last_failure_time = Some(t)]
      [] b.state = "Open" -> b

\* The breaker variables become breaker value b.
SetBreaker(b) ==
    /\ state' = b.state
    /\ failure_count' = b.failure_count
    /\ success_count' = b.success_count
    /\ last_failure_time' = b.last_failure_time

\* The observer after a record_failure that took the breaker from `from` to
\* `to` at time t, and after a record_success.
ObsFailure(from, to, t) ==
    [streak |-> IF from = "Closed" THEN obs.streak + 1 ELSE obs.streak,
     opened_at |-> IF from # "Open" /\ to = "Open" THEN Some(t) ELSE obs.opened_at,
     opened_from |-> IF from # "Open" /\ to = "Open" THEN from ELSE obs.opened_from]
ObsSuccess == [obs EXCEPT !.streak = 0]

CanExecute ==
    /\ LET r == DoCanExecute(Breaker, now)
       IN  /\ SetBreaker(r.b)
           /\ last_call' = [op |-> "can_execute", ret |-> r.ret]
    /\ UNCHANGED <<config, now, obs>>
    /\ UNCHANGED <<engineVars, concVars, storeVars, runVars, flowVars, libVars>>

RecordSuccess ==
    /\ SetBreaker(DoRecordSuccess(Breaker))
    /\ last_call' = [op |-> "record_success", ret |-> FALSE]
    /\ obs' = ObsSuccess
    /\ UNCHANGED <<config, now>>
    /\ UNCHANGED <<engineVars, concVars, storeVars, runVars, flowVars, libVars>>

RecordFailure ==
    /\ LET b == DoRecordFailure(Breaker, now)
       IN  /\ SetBreaker(b)
           /\ obs' = ObsFailure(state, b.state, now)
    /\ last_call' = [op |-> "record_failure", ret |-> FALSE]
    /\ UNCHANGED <<config, now>>
    /\ UNCHANGED <<engineVars, concVars, storeVars, runVars, flowVars, libVars>>

\* The monotonic clock advances.
Tick ==
    /\ now < MaxTime
    /\ now' = now + 1
    /\ UNCHANGED <<state, failure_count, success_count, last_failure_time,
                   config, last_call, obs>>
    /\ UNCHANGED <<engineVars, concVars, storeVars, runVars, flowVars, libVars>>

-----------------------------------------------------------------------------
(***************************************************************************)
(* CircuitBreaker, concurrent callers.  One step is one lock acquisition   *)
(* or one atomic operation; a guard taken by `*self.x.read()` or           *)
(* `*self.x.write() = v` is released at the end of its statement, except   *)
(* the read guard of last_failure_time in can_execute, which is the        *)
(* scrutinee of the `if let` and is held to the end of its block.          *)
(***************************************************************************)
Threads == 1..NumThreads
Ops == {"can_execute", "record_success", "record_failure"}

IdleThread == [pc |-> "idle", op |-> "none", st |-> "none"]

CallsMade == LET RECURSIVE Sum(_)
                 Sum(n) == IF n = 0 THEN 0 ELSE Len(hist[n]) + Sum(n - 1)
             IN  Sum(NumThreads)

\* Thread t enters a method.
Call(t, op) ==
    /\ thr[t].pc = "idle"
    /\ CallsMade < MaxCalls
    /\ thr' = [thr EXCEPT ![t] = [pc |-> "read_state", op |-> op, st |-> "none"]]
    /\ hist' = [hist EXCEPT ![t] = Append(@, op)]
    /\ UNCHANGED <<lft_readers, breakerVars, engineVars, storeVars, runVars, flowVars, libVars>>

\* Where a method goes after `let state = *self.state.read()`.
AfterRead(op, st) ==
    CASE op = "can_execute" -> IF st = "Open" THEN "read_lft" ELSE "idle"
      [] op = "record_success" ->
            IF st = "Closed" THEN "store_fc"
            ELSE IF st = "HalfOpen" THEN "incr_sc" ELSE "idle"
      [] op = "record_failure" ->
            IF st = "Closed" THEN "incr_fc"
            ELSE IF st = "HalfOpen" THEN "write_open" ELSE "idle"

\* let state = *self.state.read();
ReadState(t) ==
    /\ thr[t].pc = "read_state"
    /\ thr' = [thr EXCEPT ![t].st = state, ![t].pc = AfterRead(thr[t].op, state)]
    /\ last_call' = IF thr[t].op = "can_execute" /\ state # "Open"
                    THEN [op |-> "can_execute", ret |-> TRUE]
                    ELSE last_call
    /\ UNCHANGED <<state, failure_count, success_count, last_failure_time,
                   config, now, obs>>
    /\ UNCHANGED <<lft_readers, hist, engineVars, storeVars, runVars, flowVars, libVars>>

\* can_execute, Open: if let Some(last_failure) = *self.last_failure_time.read()
\* and the elapsed-time test.
CanReadLft(t) ==
    /\ thr[t].pc = "read_lft"
    /\ IF last_failure_time # None /\ TimedOut(Unwrap(last_failure_time), now)
       THEN /\ thr' = [thr EXCEPT ![t].pc = "write_halfopen"]
            /\ lft_readers' = lft_readers \cup {t}
            /\ UNCHANGED last_call
       ELSE /\ thr' = [thr EXCEPT ![t].pc = "idle"]
            /\ last_call' = [op |-> "can_execute", ret |-> FALSE]
            /\ UNCHANGED lft_readers
    /\ UNCHANGED <<state, failure_count, success_count, last_failure_time,
                   config, now, obs>>
    /\ UNCHANGED <<hist, engineVars, storeVars, runVars, flowVars, libVars>>

\* can_execute: *self.state.write() = CircuitState::HalfOpen;
CanWriteHalfOpen(t) ==
    /\ thr[t].pc = "write_halfopen"
    /\ state' = "HalfOpen"
    /\ thr' = [thr EXCEPT ![t].pc = "store_sc"]
    /\ UNCHANGED <<failure_count, success_count, last_failure_time, config,
                   now, last_call, obs>>
    /\ UNCHANGED <<lft_readers, hist, engineVars, storeVars, runVars, flowVars, libVars>>

\* can_execute: self.success_count.store(0); return true;
CanStoreSc(t) ==
    /\ thr[t].pc = "store_sc"
    /\ success_count' = 0
    /\ thr' = [thr EXCEPT ![t].pc = "idle"]
    /\ lft_readers' = lft_readers \ {t}
    /\ last_call' = [op |-> "can_execute", ret |-> TRUE]
    /\ UNCHANGED <<state, failure_count, last_failure_time, config, now, obs>>
    /\ UNCHANGED <<hist, engineVars, storeVars, runVars, flowVars, libVars>>

\* record_success: self.failure_count.store(0), in Closed and after closing.
SuccStoreFc(t) ==
    /\ thr[t].pc = "store_fc"
    /\ failure_count' = 0
    /\ thr' = [thr EXCEPT ![t].pc = "idle"]
    /\ UNCHANGED <<state, success_count, last_failure_time, config, now,
                   last_call, obs>>
    /\ UNCHANGED <<lft_readers, hist, engineVars, storeVars, runVars, flowVars, libVars>>

\* record_success, HalfOpen: fetch_add and the threshold test.
SuccIncrSc(t) ==
    /\ thr[t].pc = "incr_sc"
    /\ success_count' = Incr(success_count)
    /\ thr' = [thr EXCEPT ![t].pc =
                 IF Reached(Incr(success_count), config.success_threshold)
                 THEN "write_closed" ELSE "idle"]
    /\ UNCHANGED <<state, failure_count, last_failure_time, config, now,
                   last_call, obs>>
    /\ UNCHANGED <<lft_readers, hist, engineVars, storeVars, runVars, flowVars, libVars>>

\* record_success: *self.state.write() = CircuitState::Closed;
SuccWriteClosed(t) ==
    /\ thr[t].pc = "write_closed"
    /\ state' = "Closed"
    /\ thr' = [thr EXCEPT ![t].pc = "store_fc"]
    /\ UNCHANGED <<failure_count, success_count, last_failure_time, config,
                   now, last_call, obs>>
    /\ UNCHANGED <<lft_readers, hist, engineVars, storeVars, runVars, flowVars, libVars>>

\* record_failure, Closed: fetch_add and the threshold test.
FailIncrFc(t) ==
    /\ thr[t].pc = "incr_fc"
    /\ failure_count' = Incr(failure_count)
    /\ thr' = [thr EXCEPT ![t].pc =
                 IF Reached(Incr(failure_count), config.failure_threshold)
                 THEN "write_open" ELSE "idle"]
    /\ UNCHANGED <<state, success_count, last_failure_time, config, now,
                   last_call, obs>>
    /\ UNCHANGED <<lft_readers, hist, engineVars, storeVars, runVars, flowVars, libVars>>

\* record_failure: *self.state.write() = CircuitState::Open;
FailWriteOpen(t) ==
    /\ thr[t].pc = "write_open"
    /\ state' = "Open"
    /\ thr' = [thr EXCEPT ![t].pc = "write_lft"]
    /\ obs' = IF state # "Open"
              THEN [obs EXCEPT !.opened_at = Some(now), !.opened_from = state]
              ELSE obs
    /\ UNCHANGED <<failure_count, success_count, last_failure_time, config,
                   now, last_call>>
    /\ UNCHANGED <<lft_readers, hist, engineVars, storeVars, runVars, flowVars, libVars>>

\* record_failure: *self.last_failure_time.write() = Some(Instant::now());
\* the write lock waits for the readers.
FailWriteLft(t) ==
    /\ thr[t].pc = "write_lft"
    /\ lft_readers = {}
    /\ last_failure_time' = Some(now)
    /\ thr' = [thr EXCEPT ![t].pc = "idle"]
    /\ UNCHANGED <<state, failure_count, success_count, config, now,
                   last_call, obs>>
    /\ UNCHANGED <<lft_readers, hist, engineVars, storeVars, runVars, flowVars, libVars>>

\* The final breakers of the calls `rem` (thread -> its calls still to make)
\* made one at a time in some order that keeps each thread's own order, from
\* breaker b.  The clock of a sequential run is free: a can_execute on an
\* Open breaker may find the timeout elapsed or not.
RECURSIVE SeqOutcomes(_, _)
SeqOutcomes(b, rem) ==
    IF \A t \in Threads : rem[t] = << >>
    THEN {b}
    ELSE UNION {
           LET op == Head(rem[t])
               rest == [rem EXCEPT ![t] = Tail(@)]
               nexts ==
                 CASE op = "record_success" -> {DoRecordSuccess(b)}
                   [] op = "record_failure" -> {DoRecordFailure(b, 0)}
                   [] op = "can_execute" ->
                        IF b.state = "Open" /\ b.last_failure_time # None
                        THEN {b, [b EXCEPT !.state = "HalfOpen", !.success_count = 0]}
                        ELSE {b}
           IN  UNION {SeqOutcomes(b2, rest) : b2 \in nexts}
           : t \in {u \in Threads : rem[u] # << >>} }

\* state, failure_count and success_count of a breaker value.
Counters(b) == <<b.state, b.failure_count, b.success_count>>

-----------------------------------------------------------------------------
(***************************************************************************)
(* PredictionRepo and FeedbackRepo.  A row's id is Uuid::new_v4(), fresh   *)
(* on every insert: here the row's position in its table.  Neither         *)
(* predictions.feedback_id nor feedback.prediction_id is a foreign key, so *)
(* a caller may pass any id, of a row that exists or not.                  *)
(***************************************************************************)
PredictionIds == 1..MaxPredictions
FeedbackIds == 1..MaxFeedback

\* PredictionRepo::create: feedback_id: Set(None).
PredictionCreate ==
    /\ Len(predictions) < MaxPredictions
    /\ predictions' = Append(predictions, [feedback_id |-> None])
    /\ UNCHANGED <<feedback, last_link>>
    /\ UNCHANGED <<engineVars, breakerVars, concVars, runVars, flowVars, libVars>>

\* FeedbackRepo::create.
FeedbackCreate(prediction_id) ==
    /\ Len(feedback) < MaxFeedback
    /\ feedback' = Append(feedback, [prediction_id |-> prediction_id])
    /\ UNCHANGED <<predictions, last_link>>
    /\ UNCHANGED <<engineVars, breakerVars, concVars, runVars, flowVars, libVars>>

\* The row an UPDATE predictions SET feedback_id = .. WHERE id = .. leaves.
LinkedRow(row, feedback_id) == [row EXCEPT !.feedback_id = Some(feedback_id)]

\* PredictionRepo::link_feedback: an ActiveModel with id and feedback_id set,
\* update()d; an error when no row has the id.
LinkFeedback(prediction_id, feedback_id) ==
    /\ IF prediction_id \in DOMAIN predictions
       THEN /\ predictions' = [predictions EXCEPT ![prediction_id] =
                                  LinkedRow(@, feedback_id)]
            /\ last_link' = [prediction |-> prediction_id, feedback |-> feedback_id,
                             ok |-> TRUE,
                             before |-> predictions[prediction_id].feedback_id]
       ELSE /\ UNCHANGED predictions
            /\ last_link' = [prediction |-> prediction_id, feedback |-> feedback_id,
                             ok |-> FALSE, before |-> None]
    /\ UNCHANGED feedback
    /\ UNCHANGED <<engineVars, breakerVars, concVars, runVars, flowVars, libVars>>

-----------------------------------------------------------------------------
(***************************************************************************)
(* One PipelineRunner, run() and execute_cycle(), over stage executors     *)
(* taken by their signature: execute() returns Ok(StageResult) with some   *)
(* records_processed, or Err.  (The executors of stage.rs all return       *)
(* Ok with 0 records; the runner's handling of the other results is what   *)
(* is modelled here.)                                                      *)
(***************************************************************************)
StageTypes == {"MlInference", "FeatureExtraction"}
StageResults == [ok : {TRUE}, records_processed : 0..MaxRecords] \cup
                [ok : {FALSE}, records_processed : {0}]

\* PipelineRunner::new: running is true, the counters are 0; the spawned
\* task has not been polled.
NewPipelineRunner ==
    [running |-> TRUE, pc |-> "spawned", idx |-> 0, records_in_cycle |-> 0,
     records_processed |-> 0, predictions_made |-> 0, errors |-> 0]

\* A loop head that does not look at the flag.
WhileTrue(r) == [r EXCEPT !.pc = "stage", !.idx = 1, !.records_in_cycle = 0]

\* while self.is_running() { execute_cycle: records_in_cycle = 0, first
\* stage } else run() returns.  A manifest without stages gives an empty
\* cycle.
WhileIsRunning(r) ==
    IF r.running
    THEN [r EXCEPT !.pc = "stage", !.idx = 1, !.records_in_cycle = 0]
    ELSE [r EXCEPT !.pc = "finished", !.idx = 0]

\* execute_cycle returned Ok(records_in_cycle): run() adds it to
\* records_processed and sleeps.
CycleOk(r) ==
    [r EXCEPT !.records_processed = @ + r.records_in_cycle,
              !.pc = "sleep", !.idx = 0]

\* A failed stage that is run again.
StageFailedRetries(r) == [r EXCEPT !.errors = @ + 1]

\* A failed stage that ends run().
StageFailedReturns(r) ==
    [r EXCEPT !.errors = @ + 1, !.pc = "finished", !.idx = 0]

\* A stage returned Err: execute_cycle returns Err(e), run() adds 1 to errors
\* and sleeps.
StageFailed(r) ==
    [r EXCEPT !.errors = @ + 1, !.pc = "sleep", !.idx = 0]

\* A stage returned Ok(result): records_in_cycle += records_processed, and
\* predictions_made too for an ML-inference stage; then the next stage, or
\* the end of the cycle.
StageSucceeded(r, stages, n) ==
    LET r1 == [r EXCEPT !.records_in_cycle = @ + n,
                        !.predictions_made =
                            IF stages[r.idx] = "MlInference" THEN @ + n ELSE @]
    IN  IF r.idx < Len(stages)
        THEN [r1 EXCEPT !.idx = @ + 1]
        ELSE CycleOk(r1)

\* PipelineRunner::stop
Stop ==
    /\ rn' = [rn EXCEPT !.running = FALSE]
    /\ rh' = IF rn.running THEN [rh EXCEPT !.cycles_at_stop = rh.cycles] ELSE rh
    /\ UNCHANGED manifest
    /\ UNCHANGED <<engineVars, breakerVars, concVars, storeVars, flowVars, libVars>>

\* The first poll of the task running run().
RunFirstPoll ==
    /\ rn.pc = "spawned"
    /\ rn' = [rn EXCEPT !.pc = "check"]
    /\ UNCHANGED <<manifest, rh>>
    /\ UNCHANGED <<engineVars, breakerVars, concVars, storeVars, flowVars, libVars>>

\* run() evaluates its loop condition.
RunLoopHead ==
    /\ rn.pc = "check"
    /\ rn.running => rh.cycles < MaxCycles
    /\ rn' = WhileIsRunning(rn)
    /\ rh' = IF rn'.pc = "stage"
             THEN [rh EXCEPT !.cycles = @ + 1, !.invoked = << >>]
             ELSE rh
    /\ UNCHANGED manifest
    /\ UNCHANGED <<engineVars, breakerVars, concVars, storeVars, flowVars, libVars>>

\* execute_cycle: the executor of stage idx runs and returns res.
ExecuteStage(res) ==
    /\ rn.pc = "stage"
    /\ rn' = IF res.ok THEN StageSucceeded(rn, manifest, res.records_processed)
             ELSE StageFailed(rn)
    /\ rh' = [rh EXCEPT
                !.invoked = Append(@, rn.idx),
                !.returned_ok = IF res.ok THEN @ + res.records_processed ELSE @,
                !.returned_ml = IF res.ok /\ manifest[rn.idx] = "MlInference"
                                THEN @ + res.records_processed ELSE @,
                !.failed_cycles = IF res.ok THEN @ ELSE @ + 1,
                !.failed_at = IF res.ok THEN @ ELSE rh.cycles]
    /\ UNCHANGED manifest
    /\ UNCHANGED <<engineVars, breakerVars, concVars, storeVars, flowVars, libVars>>

\* The sleep between two cycles is over.
RunSleepDone ==
    /\ rn.pc = "sleep"
    /\ rn' = [rn EXCEPT !.pc = "check"]
    /\ UNCHANGED <<manifest, rh>>
    /\ UNCHANGED <<engineVars, breakerVars, concVars, storeVars, flowVars, libVars>>

-----------------------------------------------------------------------------
(***************************************************************************)
(* InferenceService::predict and FeedbackJoinTransform::process over the   *)
(* predictions table.  A row here is [feedback_id, pipeline_id,            *)
(* prediction_json, created_at]; a JSON object is a record of its keys;    *)
(* scores are in tenths; instants and durations are in clock ticks.        *)
(***************************************************************************)
ModelIds == {"m1"}

\* Uuid::nil(): no pipeline the program creates has it (ids are new_v4).
NilUuid == 0

\* predict: the prediction_json it stores (score 0.3, is_anomaly = score > 0.5,
\* the model version).
PredictJson ==
    [score |-> 3, is_anomaly |-> (3 > 5), model_version |-> "v1"]

\* serde_json::to_value of a PredictionResult::Anomaly: the enum is tagged
\* with "type", in snake_case.
AnomalyJson(is_anomaly) ==
    [type |-> "anomaly", score |-> IF is_anomaly THEN 7 ELSE 3,
     is_anomaly |-> is_anomaly, threshold |-> 5]

\* serde_json::from_value::<PredictionResult>: the tag "type" selects the
\* variant and the fields without a default must be there; None is the error.
FromValue(json) ==
    IF /\ "type" \in DOMAIN json
       /\ json.type = "anomaly"
       /\ {"score", "is_anomaly", "threshold"} \subseteq DOMAIN json
    THEN Some([variant |-> "Anomaly", is_anomaly |-> json.is_anomaly])
    ELSE None

\* A String is the sequence of its chars.  The ASCII letters, and one letter
\* pair outside ASCII (U+00C9 / U+00E9, E acute).
AsciiUpper ==
    <<"A", "B", "C", "D", "E", "F", "G", "H", "I", "J", "K", "L", "M",
      "N", "O", "P", "Q", "R", "S", "T", "U", "V", "W", "X", "Y", "Z">>
AsciiLower ==
    <<"a", "b", "c", "d", "e", "f", "g", "h", "i", "j", "k", "l", "m",
      "n", "o", "p", "q", "r", "s", "t", "u", "v", "w", "x", "y", "z">>

\* u8::to_ascii_lowercase on one char: only A..Z change.
ToAsciiLowercase(c) ==
    IF \E i \in DOMAIN AsciiUpper : AsciiUpper[i] = c
    THEN AsciiLower[CHOOSE i \in DOMAIN AsciiUpper : AsciiUpper[i] = c]
    ELSE c

\* char::to_lowercase on one char: the Unicode lower case.
CharToLowercase(c) == IF c = "U+00C9" THEN "U+00E9" ELSE ToAsciiLowercase(c)

\* str::to_lowercase.
ToLowercase(str) == [i \in DOMAIN str |-> CharToLowercase(str[i])]

\* str::eq_ignore_ascii_case.
EqIgnoreAsciiCase(a, b) ==
    /\ Len(a) = Len(b)
    /\ \A i \in DOMAIN a : ToAsciiLowercase(a[i]) = ToAsciiLowercase(b[i])

\* The labels that compute_correctness and is_positive take as positive.
PositiveLabels ==
    { <<"a", "n", "o", "m", "a", "l", "y">>, <<"t", "r", "u", "e">>,
      <<"y", "e", "s">>, <<"1">>, <<"p", "o", "s", "i", "t", "i", "v", "e">> }

\* f64::abs, on values in tenths.
Abs(x) == IF x < 0 THEN -x ELSE x

\* The Binary-only arm of compute_correctness.
ComputeCorrectnessBinaryOnly(prediction, ground_truth) ==
    IF prediction.variant = "Anomaly" /\ ground_truth.variant = "Binary"
    THEN Some(prediction.is_anomaly = ground_truth.truth)
    ELSE None

\* LabeledExample::compute_correctness: the match on (prediction,
\* ground_truth).  tolerance = |truth| * 0.1 and |value - truth| <= tolerance,
\* written without the division.
ComputeCorrectnessOf(prediction, ground_truth) ==
    CASE prediction.variant = "Anomaly" /\ ground_truth.variant = "Binary" ->
            Some(prediction.is_anomaly = ground_truth.truth)
      [] prediction.variant = "Anomaly" /\ ground_truth.variant = "Label" ->
            Some(prediction.is_anomaly
                    = (ToLowercase(ground_truth.label) \in PositiveLabels))
      [] prediction.variant = "Classification" /\ ground_truth.variant = "Label" ->
            Some(EqIgnoreAsciiCase(prediction.class, ground_truth.label))
      [] prediction.variant = "Regression" /\ ground_truth.variant = "Value" ->
            Some(10 * Abs(prediction.value - ground_truth.value)
                    <= Abs(ground_truth.value))
      [] OTHER -> None

\* LabeledExample::compute_correctness for a GroundTruth::Binary(truth).
ComputeCorrectness(result, truth) ==
    ComputeCorrectnessOf(result, [variant |-> "Binary", truth |-> truth])

\* chrono::Duration::num_seconds: whole seconds, truncated towards zero.
NumSeconds(d) ==
    IF d >= 0 THEN d \div TicksPerSecond ELSE -((-d) \div TicksPerSecond)

\* The foreign key predictions.pipeline_id -> pipelines.id.
ForeignKeyHolds(pipeline_id) == pipeline_id \in DOMAIN pipelines

\* PredictionRepo::create: the inserted row.
PredictionRow(pipeline_id, json) ==
    [feedback_id |-> None, pipeline_id |-> pipeline_id,
     prediction_json |-> json, created_at |-> utc]

\* predict(model_id): NotFound without an Active version; otherwise the row
\* is inserted under pipeline id nil, and a failed insert is Internal.
Predict(model_id) ==
    /\ (model_id \in active_models /\ ForeignKeyHolds(NilUuid))
          => Len(predictions) < MaxPredictions
    /\ IF model_id \notin active_models
       THEN /\ last_predict' = [model_id |-> model_id, status |-> "NotFound",
                                prediction_id |-> 0]
            /\ UNCHANGED predictions
       ELSE IF ForeignKeyHolds(NilUuid)
       THEN /\ predictions' = Append(predictions, PredictionRow(NilUuid, PredictJson))
            /\ last_predict' = [model_id |-> model_id, status |-> "Ok",
                                prediction_id |-> Len(predictions) + 1]
       ELSE /\ last_predict' = [model_id |-> model_id, status |-> "Internal",
                                prediction_id |-> 0]
            /\ UNCHANGED predictions
    /\ UNCHANGED <<feedback, last_link>>
    /\ UNCHANGED <<active_models, max_join_delay_secs, utc, last_join>>
    /\ UNCHANGED <<engineVars, breakerVars, concVars, runVars, libVars>>

\* PredictionRepo::create by a caller that stores a serialized
\* PredictionResult under an existing pipeline.
StorePrediction(pipeline_id, is_anomaly) ==
    /\ Len(predictions) < MaxPredictions
    /\ ForeignKeyHolds(pipeline_id)
    /\ predictions' = Append(predictions,
                             PredictionRow(pipeline_id, AnomalyJson(is_anomaly)))
    /\ UNCHANGED <<feedback, last_link>>
    /\ UNCHANGED flowVars
    /\ UNCHANGED <<engineVars, breakerVars, concVars, runVars, libVars>>

\* FeedbackJoinTransform::process over the rows: find_by_id, convert (the row
\* has no ttl, so it is never expired), the delay test, the labeled example.
Process(rows, f) ==
    IF f.prediction_id \notin DOMAIN rows
    THEN [outcome |-> "PredictionNotFound", is_correct |-> None]
    ELSE LET row == rows[f.prediction_id]
             result == FromValue(row.prediction_json)
             delay_secs == NumSeconds(f.feedback_time - row.created_at)
         IN  IF result = None
             THEN [outcome |-> "JoinFailed", is_correct |-> None]
             ELSE IF delay_secs > max_join_delay_secs
             THEN [outcome |-> "None", is_correct |-> None]
             ELSE [outcome |-> "Some",
                   is_correct |-> ComputeCorrectness(Unwrap(result), f.truth)]

\* The feedback records a caller can pass: GroundTruth::Binary(truth).
FeedbackRecords ==
    [feedback_id : FeedbackIds, prediction_id : 1..MaxPredictions,
     truth : BOOLEAN, feedback_time : 0..MaxUtc]

\* process(feedback): it reads the prediction row and writes nothing.
ProcessFeedback(f) ==
    /\ last_join' = [feedback |-> f] @@ Process(predictions, f)
    /\ UNCHANGED <<active_models, max_join_delay_secs, utc, last_predict>>
    /\ UNCHANGED storeVars
    /\ UNCHANGED <<engineVars, breakerVars, concVars, runVars, libVars>>

\* The wall clock advances.
UtcTick ==
    /\ utc < MaxUtc
    /\ utc' = utc + 1
    /\ UNCHANGED <<active_models, max_join_delay_secs, last_predict, last_join>>
    /\ UNCHANGED storeVars
    /\ UNCHANGED <<engineVars, breakerVars, concVars, runVars, libVars>>

-----------------------------------------------------------------------------
(***************************************************************************)
(* LabeledExample::compute_correctness, called on any pair of a            *)
(* PredictionResult and a GroundTruth.  Regression values are in tenths.   *)
(***************************************************************************)

\* The strings tried as class and as label.
SampleStrings ==
    { << >>,
      <<"a", "n", "o", "m", "a", "l", "y">>, <<"A", "n", "o", "m", "a", "l", "y">>,
      <<"T", "R", "U", "E">>, <<"Y", "e", "s">>, <<"1">>, <<"0">>,
      <<"P", "o", "s", "i", "t", "i", "v", "E">>,
      <<"n", "o">>, <<"N", "O">>, <<"y", "e", "s", " ">>,
      <<"c", "a", "t">>, <<"C", "A", "T">>, <<"c", "a", "t", "s">>,
      <<"U+00C9">>, <<"U+00E9">> }

\* The values tried as regression value and as true value, in tenths.
SampleValues == {-20, -11, -10, -9, -8, 0, 1, 8, 9, 10, 11, 12, 18, 20, 22, 23}

\* The PredictionResult values.
PredictionResults ==
    [variant : {"Anomaly"}, is_anomaly : BOOLEAN]
      \cup [variant : {"Classification"}, class : SampleStrings]
      \cup [variant : {"Regression"}, value : SampleValues]
      \cup [variant : {"Clustering", "Embedding", "Custom"}]

\* The GroundTruth values.
GroundTruths ==
    [variant : {"Binary"}, truth : BOOLEAN]
      \cup [variant : {"Label"}, label : SampleStrings]
      \cup [variant : {"Value"}, value : SampleValues]
      \cup [variant : {"Ranking", "MultiLabel", "Custom"}]

\* A call of compute_correctness (from from_prediction_and_feedback).
CallComputeCorrectness(prediction, ground_truth) ==
    /\ cc' = [called |-> TRUE, prediction |-> prediction,
              ground_truth |-> ground_truth,
              is_correct |-> ComputeCorrectnessOf(prediction, ground_truth)]
    /\ UNCHANGED otherThanCorr

InitCorrIdle ==
    cc = [called |-> FALSE, prediction |-> [variant |-> "Custom"],
          ground_truth |-> [variant |-> "Custom"], is_correct |-> None]

-----------------------------------------------------------------------------
(***************************************************************************)
(* ControlService::create_pipeline over the pipelines table with its       *)
(* unique index on (name, namespace).  A row here is [status, spec_ok,     *)
(* name, namespace, spec_yaml]; a spec_yaml is the document it holds:      *)
(* whether it is YAML of the manifest's shape, and the manifest's fields.  *)
(***************************************************************************)

\* A manifest that parses and validates.
GoodYaml ==
    [yaml_ok |-> TRUE, api_version |-> "flywheel-ml.io/v1",
     kind |-> "FlywheelPipeline", name |-> "p",
     stages |-> <<[id |-> "s1", config_ok |-> TRUE]>>, sinks |-> 1]

\* The spec_yaml values a caller sends.
SpecYamls ==
    { GoodYaml,
      [GoodYaml EXCEPT !.yaml_ok = FALSE],
      [GoodYaml EXCEPT !.api_version = "v0"],
      [GoodYaml EXCEPT !.kind = "Pipeline"],
      [GoodYaml EXCEPT !.name = ""],
      [GoodYaml EXCEPT !.stages = << >>],
      [GoodYaml EXCEPT !.sinks = 0],
      [GoodYaml EXCEPT !.stages = <<[id |-> "", config_ok |-> TRUE]>>],
      [GoodYaml EXCEPT !.stages = <<[id |-> "s1", config_ok |-> TRUE],
                                    [id |-> "s1", config_ok |-> TRUE]>>],
      [GoodYaml EXCEPT !.stages = <<[id |-> "s1", config_ok |-> TRUE],
                                    [id |-> "s2", config_ok |-> FALSE]>>] }

\* parse_manifest: serde_yaml::from_str, then the api_version and kind checks.
ParseManifest(yaml) ==
    /\ yaml.yaml_ok
    /\ yaml.api_version = "flywheel-ml.io/v1"
    /\ yaml.kind = "FlywheelPipeline"

\* validate_manifest and validate_spec on a parsed manifest.
ValidateManifest(m) ==
    /\ m.name # ""
    /\ m.stages # << >>
    /\ m.sinks > 0
    /\ \A i \in DOMAIN m.stages :
          /\ m.stages[i].id # ""
          /\ \A j \in 1..(i - 1) : m.stages[j].id # m.stages[i].id
          /\ m.stages[i].config_ok

\* The requests of create_pipeline.
CreatePipelineRequests ==
    [name : {"", "a"}, namespace : {"default", "prod"}, spec_yaml : SpecYamls]

\* The unique index idx_pipelines_name_namespace refuses the insert.
UniqueViolation(rows, name, namespace) ==
    \E id \in DOMAIN rows :
        rows[id].name = name /\ rows[id].namespace = namespace

\* The status create_pipeline gives to an error of PipelineRepo::create.
CreateErrorStatus == "Internal"

\* PipelineRepo::find_by_name: the ids of the rows with that name and namespace.
FindByName(rows, name, namespace) ==
    {id \in DOMAIN rows : rows[id].name = name /\ rows[id].namespace = namespace}

\* create_pipeline(req): the name check, then the insert of a Pending row
\* holding spec_yaml as given; an insert error becomes CreateErrorStatus.
CreatePipelineRpc(req) ==
    /\ IF req.name = ""
       THEN /\ last_create' = [status |-> "InvalidArgument", pipeline_id |-> 0]
            /\ UNCHANGED <<pipelines, created>>
       ELSE IF UniqueViolation(pipelines, req.name, req.namespace)
       THEN /\ last_create' = [status |-> CreateErrorStatus, pipeline_id |-> 0]
            /\ UNCHANGED <<pipelines, created>>
       ELSE /\ created < MaxRows
            /\ pipelines' = (created + 1 :>
                               [status |-> "Pending",
                                spec_ok |-> ParseManifest(req.spec_yaml),
                                name |-> req.name, namespace |-> req.namespace,
                                spec_yaml |-> req.spec_yaml])
                            @@ pipelines
            /\ created' = created + 1
            /\ last_create' = [status |-> "Ok", pipeline_id |-> created + 1]
    /\ UNCHANGED <<robj, engine_pc, running_pipelines, last_reconcile>>
    /\ UNCHANGED <<breakerVars, concVars, storeVars, runVars, flowVars>>
    /\ UNCHANGED libOtherThanCatalog

InitCatalogIdle ==
    last_create = [status |-> "none", pipeline_id |-> 0]

-----------------------------------------------------------------------------
(***************************************************************************)
(* DriftEventRepo over the drift_events table.  A row is [pipeline_id,     *)
(* model_id, resolved_at]; its id is its position in the table.  The table *)
(* has a foreign key to pipelines and no unique index.                     *)
(***************************************************************************)

\* The model ids of drift events.
DriftModelIds == {"m1", "m2"}

\* An event is open while resolved_at is null.
IsOpen(event) == event.resolved_at = None

\* DriftEventRepo::create: an insert with resolved_at null; the foreign key to
\* pipelines is the only condition.
DriftEventCreate(pipeline_id, model_id) ==
    /\ Len(drift_events) < MaxDriftEvents
    /\ IF ForeignKeyHolds(pipeline_id)
       THEN /\ drift_events' = Append(drift_events,
                                     [pipeline_id |-> pipeline_id,
                                      model_id |-> model_id,
                                      resolved_at |-> None])
            /\ last_drift_op' = [op |-> "create", ok |-> TRUE]
       ELSE /\ drift_events' = drift_events
            /\ last_drift_op' = [op |-> "create", ok |-> FALSE]
    /\ UNCHANGED otherThanDrift

\* DriftEventRepo::resolve: UPDATE .. SET resolved_at = now WHERE id; a
\* missing row is an error.
DriftEventResolve(id) ==
    /\ IF id \in DOMAIN drift_events
       THEN /\ drift_events' = [drift_events EXCEPT ![id].resolved_at = Some(utc)]
            /\ last_drift_op' = [op |-> "resolve", ok |-> TRUE]
       ELSE /\ drift_events' = drift_events
            /\ last_drift_op' = [op |-> "resolve", ok |-> FALSE]
    /\ UNCHANGED otherThanDrift

InitDriftIdle ==
    /\ drift_events = << >>
    /\ last_drift_op = [op |-> "none", ok |-> FALSE]

-----------------------------------------------------------------------------
(***************************************************************************)
(* InferenceService::predict_stream: one stream.  The client sends         *)
(* requests and may half-close; the server's try_stream! block reads one   *)
(* message at a time and yields one item for it.  An item is               *)
(* [request, status]: the position of the request it answers and Ok or the *)
(* error status.  A `?` inside try_stream! yields the error as the last    *)
(* item and ends the stream.                                               *)
(***************************************************************************)

\* The model ids a client asks for; "m2" has no model version.
StreamModelIds == ModelIds \cup {"m2"}

\* What the block does after the item of a failed lookup.
AfterError == "ended"

\* The client sends a request on the stream.
StreamSend(model_id) ==
    /\ ~stream_closed
    /\ Len(stream_sent) < MaxStreamRequests
    /\ stream_sent' = Append(stream_sent, model_id)
    /\ UNCHANGED <<stream_read, stream_closed, stream_pc, stream_out>>
    /\ UNCHANGED otherThanStream

\* The client half-closes the stream.
StreamClose ==
    /\ ~stream_closed
    /\ stream_closed' = TRUE
    /\ UNCHANGED <<stream_sent, stream_read, stream_pc, stream_out>>
    /\ UNCHANGED otherThanStream

\* One turn of `while let Some(req) = stream.message().await?`: the next
\* request is looked up by find_by_model_id and answered, or the request
\* stream is at its end and the block finishes.
StreamServe ==
    /\ stream_pc = "open"
    /\ IF stream_read < Len(stream_sent)
       THEN LET req == stream_sent[stream_read + 1]
            IN  /\ stream_read' = stream_read + 1
                /\ IF req \in active_models
                   THEN /\ stream_out' = Append(stream_out,
                               [request |-> stream_read + 1, status |-> "Ok"])
                        /\ stream_pc' = "open"
                   ELSE /\ stream_out' = Append(stream_out,
                               [request |-> stream_read + 1, status |-> "NotFound"])
                        /\ stream_pc' = AfterError
       ELSE /\ stream_closed
            /\ stream_pc' = "ended"
            /\ UNCHANGED <<stream_read, stream_out>>
    /\ UNCHANGED <<stream_sent, stream_closed>>
    /\ UNCHANGED otherThanStream

InitStreamIdle ==
    /\ stream_sent = << >>
    /\ stream_read = 0
    /\ stream_closed = FALSE
    /\ stream_pc = "open"
    /\ stream_out = << >>

-----------------------------------------------------------------------------
(***************************************************************************)
(* Sampler built with SamplingConfig::ReservoirSampling { size }.  An      *)
(* example is its arrival number (example_id is a fresh uuid); a Vec is    *)
(* a sequence, slot j of the Vec being position j + 1 of the sequence.     *)
(***************************************************************************)

\* ReservoirSampler::new(size).
NewReservoirSampler(size) == [size |-> size, reservoir |-> << >>, count |-> 0]

\* self.reservoir[j] = example, written as an append.
SlotPushed(reservoir, j, example) == Append(reservoir, example)

\* self.reservoir[j] = example.
SlotAssigned(reservoir, j, example) == [reservoir EXCEPT ![j + 1] = example]

\* ReservoirSampler::add with the value j that gen_range(0..count) returned.
ReservoirAdd(r, example, j) ==
    LET count == r.count + 1
    IN  IF Len(r.reservoir) < r.size
        THEN [r EXCEPT !.count = count, !.reservoir = Append(@, example)]
        ELSE IF j < r.size
        THEN [r EXCEPT !.count = count,
                       !.reservoir = SlotAssigned(@, j, example)]
        ELSE [r EXCEPT !.count = count]

\* Vec::capacity of the Vec that reservoir.clone() returns: a clone is
\* allocated for its length.
CloneCapacity(vec) == Len(vec)

\* Sampler::sample_one(example) on a reservoir sampler: reservoir.add(example).
SampleOne ==
    /\ examples_made < MaxExamples
    /\ \E j \in 0..samp.count :
          samp' = ReservoirAdd(samp, examples_made + 1, j)
    /\ examples_made' = examples_made + 1
    /\ samp_added' = samp_added \cup {examples_made + 1}
    /\ UNCHANGED <<sampling_size, drained>>
    /\ UNCHANGED otherThanSamp

\* Sampler::drain_reservoir: take the reservoir, return get_sample(), and put
\* a new ReservoirSampler of the sample's capacity in its place.
DrainReservoir ==
    /\ drained' = [n |-> drained.n + 1, samples |-> samp.reservoir,
                   count |-> samp.count]
    /\ drained.n < MaxDrains
    /\ samp' = NewReservoirSampler(CloneCapacity(samp.reservoir))
    /\ samp_added' = {}
    /\ UNCHANGED <<sampling_size, examples_made>>
    /\ UNCHANGED otherThanSamp

InitSampIdle ==
    /\ sampling_size = 0
    /\ samp = NewReservoirSampler(0)
    /\ samp_added = {}
    /\ examples_made = 0
    /\ drained = [n |-> 0, samples |-> << >>, count |-> 0]

\* Sampler::new(SamplingConfig::ReservoirSampling { size }).
InitSamp ==
    /\ sampling_size \in 0..MaxReservoirSize
    /\ samp = NewReservoirSampler(sampling_size)
    /\ samp_added = {}
    /\ examples_made = 0
    /\ drained = [n |-> 0, samples |-> << >>, count |-> 0]

-----------------------------------------------------------------------------
(***************************************************************************)
(* compute_psi and histogram.  A dataset is a sequence of values, in       *)
(* units of 1/n of the reference's range; a bin's share is the fraction    *)
(* [num, den].  Arithmetic is exact.  A term (cur - ref) * ln(cur / ref)   *)
(* of the PSI sum is never negative and is 0 exactly when cur = ref, so    *)
(* the sum is greater than 0 exactly when some bin's floored shares        *)
(* differ: that is what is computed of the sum here.                       *)
(***************************************************************************)

SeqMin(values) ==
    CHOOSE m \in {values[i] : i \in DOMAIN values} :
        \A i \in DOMAIN values : m <= values[i]

SeqMax(values) ==
    CHOOSE m \in {values[i] : i \in DOMAIN values} :
        \A i \in DOMAIN values : m >= values[i]

\* histogram(values, bins): bins of equal width over the values' own
\* min..max; bin b of the Vec is position b + 1.
Histogram(values, bins) ==
    IF values = << >>
    THEN [b \in 1..bins |-> [num |-> 0, den |-> 1]]
    ELSE LET min == SeqMin(values)
             max == SeqMax(values)
             bin(v) == LET q == ((v - min) * bins) \div (max - min)
                       IN  IF q < bins - 1 THEN q ELSE bins - 1
         IN  IF max = min
             THEN [b \in 1..bins |-> [num |-> IF b = 1 THEN 1 ELSE 0, den |-> 1]]
             ELSE [b \in 1..bins |->
                     [num |-> Cardinality({i \in DOMAIN values :
                                              bin(values[i]) = b - 1}),
                      den |-> Len(values)]]

\* pct.max(0.0001).
FloorShare(pct) ==
    IF pct.num * PsiFloorDen < pct.den
    THEN [num |-> 1, den |-> PsiFloorDen]
    ELSE pct

\* Two shares are the same fraction.
SameShare(a, b) == a.num * b.den = b.num * a.den

\* compute_psi(reference, current, bins) > 0.
PsiPositive(reference, current, bins) ==
    LET ref_hist == Histogram(reference, bins)
        cur_hist == Histogram(current, bins)
    IN  \E b \in 1..bins :
            ~SameShare(FloorShare(ref_hist[b]), FloorShare(cur_hist[b]))

\* n values evenly spaced over [0, 1): 0, 1/n, .. (n-1)/n, in units of 1/n.
EvenlySpaced(n) == [i \in 1..n |-> i - 1]

\* The dataset moved up by `shift`.
Shifted(values, shift) == [i \in DOMAIN values |-> values[i] + shift]

\* The dataset with its values squared: crowded towards the low end.
Squared(values) == [i \in DOMAIN values |-> values[i] * values[i]]

\* The current datasets tried against EvenlySpaced(n): the reference itself,
\* the reference moved up by half and by the whole of its range, and the
\* reference squared.
CurrentKinds == {"same", "shift_half", "shift_whole", "squared"}

CurrentOf(kind, n) ==
    CASE kind = "same" -> EvenlySpaced(n)
      [] kind = "shift_half" -> Shifted(EvenlySpaced(n), n \div 2)
      [] kind = "shift_whole" -> Shifted(EvenlySpaced(n), n)
      [] kind = "squared" -> Squared(EvenlySpaced(n))

\* A call of compute_psi(reference, current, bins).
ComputePsi ==
    /\ ~psi_out.called
    /\ psi_out' = [called |-> TRUE,
                   ref_hist |-> Histogram(psi_in.reference, psi_in.bins),
                   cur_hist |-> Histogram(psi_in.current, psi_in.bins),
                   positive |-> PsiPositive(psi_in.reference, psi_in.current,
                                            psi_in.bins)]
    /\ UNCHANGED psi_in
    /\ UNCHANGED otherThanPsi

InitPsiIdle ==
    /\ psi_in = [kind |-> "same", reference |-> << >>, current |-> << >>, bins |-> 1]
    /\ psi_out = [called |-> FALSE, ref_hist |-> << >>, cur_hist |-> << >>,
                  positive |-> FALSE]

\* The datasets and the number of bins of one call.
InitPsi ==
    /\ \E h \in 1..MaxHalfSize, kind \in CurrentKinds, bins \in 1..PsiBins :
          psi_in = [kind |-> kind, reference |-> EvenlySpaced(2 * h),
                    current |-> CurrentOf(kind, 2 * h), bins |-> bins]
    /\ psi_out = [called |-> FALSE, ref_hist |-> << >>, cur_hist |-> << >>,
                  positive |-> FALSE]

-----------------------------------------------------------------------------
(***************************************************************************)
(* DriftDetector.  The detector is [config, has_reference, window_len,     *)
(* tracker, baseline_accuracy]; the values of the reference and of the     *)
(* window are left out, and the PSI that compute_psi returns for them is   *)
(* any of PsiScores.  PSI, thresholds and accuracies are in hundredths.    *)
(***************************************************************************)

\* PerformanceTracker::new().
NewPerformanceTracker ==
    [true_positives |-> 0, true_negatives |-> 0,
     false_positives |-> 0, false_negatives |-> 0]

\* PerformanceTracker::accuracy.
Accuracy(t) ==
    LET correct == t.true_positives + t.true_negatives
        total == t.true_positives + t.true_negatives
                    + t.false_positives + t.false_negatives
    IN  IF total = 0 THEN 0 ELSE (100 * correct) \div total

\* The DriftConfig values: the default thresholds, and an accuracy_threshold
\* of 0; window_size just at and just above the window check_drift needs.
DriftConfigs ==
    [psi_threshold : {25}, accuracy_threshold : {0, 85},
     window_size : {MinWindow, MinWindow + 1}]

\* DriftDetector::new(config).
NewDriftDetector(cfg) ==
    [config |-> cfg, has_reference |-> FALSE, window_len |-> 0,
     tracker |-> NewPerformanceTracker, baseline_accuracy |-> 90]

\* The values compute_psi may return.
PsiScores == {0, 9, 10, 24, 25, 26, 50, 100}

\* DriftSeverity::from_psi.
FromPsi(psi) ==
    IF psi < 10 THEN "None"
    ELSE IF psi < 25 THEN "Low"
    ELSE IF psi < 50 THEN "Medium"
    ELSE IF psi < 100 THEN "High"
    ELSE "Critical"

NoDriftResult ==
    [is_drifted |-> FALSE, drift_type |-> None, severity |-> "None",
     psi_score |-> None, accuracy_delta |-> None]

\* check_drift on detector d, compute_psi returning psi.
CheckDriftResult(d, psi) ==
    IF ~d.has_reference \/ d.window_len < MinWindow
    THEN NoDriftResult
    ELSE LET statistical_drifted == psi > d.config.psi_threshold
             current_accuracy == Accuracy(d.tracker)
             performance_drifted == current_accuracy < d.config.accuracy_threshold
         IN  [is_drifted |-> statistical_drifted \/ performance_drifted,
              drift_type |->
                  IF statistical_drifted /\ performance_drifted THEN Some("Both")
                  ELSE IF statistical_drifted THEN Some("Statistical")
                  ELSE IF performance_drifted THEN Some("Performance")
                  ELSE None,
              severity |-> FromPsi(psi),
              psi_score |-> Some(psi),
              accuracy_delta |-> Some(d.baseline_accuracy - current_accuracy)]

\* set_reference(values) with a non-empty Vec.
SetReference ==
    /\ det' = [det EXCEPT !.has_reference = TRUE]
    /\ UNCHANGED <<det_adds, det_result>>
    /\ UNCHANGED otherThanDet

\* add_value(value): push, and drop the oldest value beyond window_size.
AddValue ==
    /\ det_adds < MinWindow + MaxExtraAdds
    /\ det_adds' = det_adds + 1
    /\ det' = [det EXCEPT !.window_len =
                  IF @ + 1 > det.config.window_size THEN @ ELSE @ + 1]
    /\ UNCHANGED det_result
    /\ UNCHANGED otherThanDet

\* check_drift().
CheckDrift(psi) ==
    /\ det_result' = [checked |-> TRUE, psi |-> psi] @@ CheckDriftResult(det, psi)
    /\ UNCHANGED <<det, det_adds>>
    /\ UNCHANGED otherThanDet

NoCheck == [checked |-> FALSE, psi |-> 0] @@ NoDriftResult

InitDetIdle ==
    /\ det = NewDriftDetector([psi_threshold |-> 25, accuracy_threshold |-> 85,
                               window_size |-> MinWindow])
    /\ det_adds = 0
    /\ det_result = NoCheck

\* DriftDetector::new(config) under any of the configs.
InitDet ==
    /\ det \in {NewDriftDetector(cfg) : cfg \in DriftConfigs}
    /\ det_adds = 0
    /\ det_result = NoCheck

(***************************************************************************)
(* ModelVersionRepo (flywheel-db/src/repo.rs) over the model_versions      *)
(* table.  A row keeps the columns the lookup reads: model_id, status and  *)
(* deployed_at.  The table is stored data: a deployment may hold rows in   *)
(* any status of ModelStatus.                                              *)
(***************************************************************************)
ModelStatus == {"Active", "Deprecated", "Failed", "Pending"}

VersionModelIds == {"m1", "m2"}

ModelVersionRows ==
    [model_id : VersionModelIds, status : ModelStatus, deployed_at : 0..MaxDeployTime]

\* The lookup without its status filter.
OfModel(rows, model_id) ==
    {i \in 1..Len(rows) : rows[i].model_id = model_id}

\* .filter(ModelId.eq(model_id)).filter(Status.eq(Active))
ActiveOfModel(rows, model_id) ==
    {i \in 1..Len(rows) : rows[i].model_id = model_id /\ rows[i].status = "Active"}

\* .order_by_desc(DeployedAt).one(): the first row of the descending order,
\* any of the rows that tie for it; None when the filter keeps no row.
FirstByDeployedAtDesc(rows, kept) ==
    IF kept = {} THEN {None}
    ELSE {Some(i) : i \in {k \in kept :
                \A o \in kept : rows[o].deployed_at <= rows[k].deployed_at}}

FindByModelIdResults(rows, model_id) ==
    FirstByDeployedAtDesc(rows, ActiveOfModel(rows, model_id))

\* ModelVersionRepo::create: the new row is Pending, deployed_at = Utc::now().
ModelVersionCreate(model_id, at) ==
    [model_id |-> model_id, status |-> "Pending", deployed_at |-> at]

\* register_model: an empty model id is refused, otherwise one row is created.
RegisterModel(model_id, at) ==
    /\ Len(model_versions) < MaxVersions + 1
    /\ IF model_id = ""
       THEN model_versions' = model_versions
       ELSE model_versions' = Append(model_versions, ModelVersionCreate(model_id, at))
    /\ last_find' = [op |-> "register", model_id |-> model_id, found |-> None]
    /\ UNCHANGED otherThanModel

FindByModelId(model_id) ==
    /\ \E r \in FindByModelIdResults(model_versions, model_id) :
           last_find' = [op |-> "find", model_id |-> model_id, found |-> r]
    /\ UNCHANGED model_versions
    /\ UNCHANGED otherThanModel

InitModelIdle ==
    /\ model_versions = << >>
    /\ last_find = [op |-> "none", model_id |-> "", found |-> None]

InitModel ==
    /\ model_versions \in UNION {[1..n -> ModelVersionRows] : n \in 0..MaxVersions}
    /\ last_find = [op |-> "none", model_id |-> "", found |-> None]

(***************************************************************************)
(* LocalExporter (flywheel-ml-training/src/exporter.rs).  The exporters    *)
(* share one output directory.  A file is [dir, name, content]: dir is the *)
(* partition directory, name the pair of the millisecond timestamp and the *)
(* extension, content the examples written.  Examples are numbered in the  *)
(* order they are handed over; the partition key is the model id.          *)
(***************************************************************************)
ExportFormat == {"JsonLines", "Csv"}

Extension(format) ==
    CASE format = "Parquet" -> "parquet"
      [] format = "JsonLines" -> "jsonl"
      [] format = "Csv" -> "csv"

ExportModelIds == {"m1", "m2"}

\* build_partition_path with partition_by = [ModelId]
BuildPartitionPath(model_id) == <<"model_id", model_id>>

\* partition_examples: the partitions of a batch and the examples of each.
PartitionExamples(batch) ==
    {[dir |-> BuildPartitionPath(m),
      examples |-> {e \in batch : e.model_id = m}] :
         m \in {e.model_id : e \in batch}}

\* format!("examples_{}.{}", Utc::now().timestamp_millis(), extension)
FileName(millis, format) == <<millis, Extension(format)>>

\* File::create: a file of that path is created, or truncated if it exists;
\* then the examples are written.
WriteExamplesSync(fs, dir, name, examples) ==
    {f \in fs : ~(f.dir = dir /\ f.name = name)}
        \cup {[dir |-> dir, name |-> name, content |-> {e.id : e \in examples}]}

RECURSIVE WritePartitions(_, _, _)
WritePartitions(fs, parts, name) ==
    IF parts = {} THEN fs
    ELSE LET p == CHOOSE q \in parts : TRUE
         IN  WritePartitions(WriteExamplesSync(fs, p.dir, name, p.examples),
                             parts \ {p}, name)

\* export_batch of one exporter: an empty batch writes nothing; otherwise
\* one file is written per partition of the batch.
ExportBatch(format, models) ==
    /\ exported + Len(models) <= MaxExported
    /\ LET batch == {[id |-> exported + k, model_id |-> models[k]] :
                        k \in 1..Len(models)}
       IN  /\ files' = IF batch = {} THEN files
                       ELSE WritePartitions(files, PartitionExamples(batch),
                                            FileName(export_millis, format))
           /\ exported' = exported + Len(models)
    /\ UNCHANGED export_millis
    /\ UNCHANGED otherThanExport

\* The wall clock reaches the next millisecond.
MillisTick ==
    /\ export_millis < MaxMillis
    /\ export_millis' = export_millis + 1
    /\ UNCHANGED <<files, exported>>
    /\ UNCHANGED otherThanExport

InitExportIdle ==
    /\ files = {}
    /\ exported = 0
    /\ export_millis = 0

(***************************************************************************)
(* InferenceTransform::process (flywheel-transform/src/                    *)
(* inference_transform.rs) over the breaker variables.  The model is taken *)
(* by its signature: predict returns Ok(prediction) or Err(e).  The        *)
(* breaker's config is any of the small configs of the breaker model.      *)
(***************************************************************************)
ModelResults == {"Ok", "Err"}

\* A process that calls the model whatever can_execute returned.
ProcessOutcomeUnguarded(b, t, res) ==
    LET can == DoCanExecute(b, t)
    IN  [b |-> IF res = "Ok" THEN DoRecordSuccess(can.b)
               ELSE DoRecordFailure(can.b, t),
         can |-> can.ret, model_calls |-> 1,
         recorded |-> <<IF res = "Ok" THEN "record_success" ELSE "record_failure">>,
         ret |-> res]

\* process on breaker b at time t with a model that would return res: the
\* breaker afterwards, what can_execute returned, the number of calls of
\* model.predict, the outcomes recorded on the breaker and the value
\* returned.
ProcessOutcome(b, t, res) ==
    LET can == DoCanExecute(b, t)
    IN  IF ~can.ret
        THEN [b |-> can.b, can |-> FALSE, model_calls |-> 0, recorded |-> << >>,
              ret |-> "CircuitBreakerOpen"]
        ELSE IF res = "Ok"
        THEN [b |-> DoRecordSuccess(can.b), can |-> TRUE, model_calls |-> 1,
              recorded |-> <<"record_success">>, ret |-> "Ok"]
        ELSE [b |-> DoRecordFailure(can.b, t), can |-> TRUE, model_calls |-> 1,
              recorded |-> <<"record_failure">>, ret |-> "Err"]

InferenceProcess(res) ==
    /\ LET out == ProcessOutcome(Breaker, now, res)
       IN  /\ SetBreaker(out.b)
           /\ last_process' = [can |-> out.can, model_calls |-> out.model_calls,
                               recorded |-> out.recorded, ret |-> out.ret]
           /\ last_call' = IF out.recorded = << >>
                           THEN [op |-> "can_execute", ret |-> FALSE]
                           ELSE [op |-> out.recorded[1], ret |-> FALSE]
    /\ UNCHANGED <<config, now, obs>>
    /\ UNCHANGED <<engineVars, concVars, storeVars, runVars, flowVars>>
    /\ UNCHANGED libOtherThanInfer

InitInferIdle ==
    last_process = [can |-> FALSE, model_calls |-> 0, recorded |-> << >>,
                    ret |-> "none"]

(***************************************************************************)
(* HealthService::get_pipeline_health and get_drift_status                 *)
(* (flywheel-ml-server/src/grpc/health_service.rs) over the drift_events   *)
(* table.  detected_at is Utc::now() at the insert, so the events of       *)
(* drift_events are in detected_at order and the newest is the last one.   *)
(***************************************************************************)
\* PipelineRepo::find_by_id: the row of that id, if any.
FindById(rows, id) == IF id \in DOMAIN rows THEN Some(id) ELSE None

\* DriftEventRepo::list_by_pipeline: the ids of the pipeline's events by
\* detected_at descending, at most `limit` of them.
RECURSIVE ListByPipeline(_, _, _)
ListByPipeline(events, pipeline_id, limit) ==
    IF limit = 0 \/ events = << >> THEN << >>
    ELSE LET last == Len(events)
             rest == SubSeq(events, 1, last - 1)
         IN  IF events[last].pipeline_id = pipeline_id
             THEN <<last>> \o ListByPipeline(rest, pipeline_id, limit - 1)
             ELSE ListByPipeline(rest, pipeline_id, limit)

\* drift_events.first()
First(list) == IF list = << >> THEN None ELSE Some(list[1])

\* get_pipeline_health: NotFound for a missing pipeline; otherwise the drift
\* summary is made from the first event of list_by_pipeline(pipeline_id, 1),
\* is_drifted = event.resolved_at.is_none(); no summary without an event.
GetPipelineHealth(pipeline_id) ==
    /\ IF FindById(pipelines, pipeline_id) = None
       THEN last_health' = [rpc |-> "GetPipelineHealth", pipeline_id |-> pipeline_id,
                            status |-> "NotFound", is_drifted |-> FALSE,
                            event |-> None]
       ELSE LET event == First(ListByPipeline(drift_events, pipeline_id, 1))
            IN  last_health' =
                   [rpc |-> "GetPipelineHealth", pipeline_id |-> pipeline_id,
                    status |-> "Ok",
                    is_drifted |-> IF event = None THEN FALSE
                                   ELSE IsOpen(drift_events[Unwrap(event)]),
                    event |-> event]
    /\ UNCHANGED otherThanHealth

\* get_drift_status: the same query; is_drifted is false without an event.
GetDriftStatus(pipeline_id) ==
    /\ LET event == First(ListByPipeline(drift_events, pipeline_id, 1))
       IN  last_health' =
              [rpc |-> "GetDriftStatus", pipeline_id |-> pipeline_id,
               status |-> "Ok",
               is_drifted |-> IF event = None THEN FALSE
                              ELSE IsOpen(drift_events[Unwrap(event)]),
               event |-> event]
    /\ UNCHANGED otherThanHealth

InitHealthIdle ==
    last_health = [rpc |-> "none", pipeline_id |-> 0, status |-> "none",
                   is_drifted |-> FALSE, event |-> None]

(***************************************************************************)
(* PipelineRegistry (flywheel-server/src/registry.rs): the map pipelines   *)
(* (id -> entry) and the index by_name ((name, namespace) -> id).  Calls   *)
(* are made one at a time.  An entry keeps id, name and namespace.         *)
(***************************************************************************)
PipelineEntries ==
    [id : 1..MaxEntryIds, name : {"a", "b"}, namespace : {"default", "prod"}]

\* HashMap::insert
MapInsert(map, key, value) == [k \in DOMAIN map \cup {key} |->
                                  IF k = key THEN value ELSE map[k]]

\* HashMap::remove
MapRemove(map, key) == [k \in DOMAIN map \ {key} |-> map[k]]

\* HashMap::get
MapGet(map, key) == IF key \in DOMAIN map THEN Some(map[key]) ELSE None

\* register: pipelines.insert(id, entry); by_name.insert(key, id).
Register(entry) ==
    /\ registry_pipelines' = MapInsert(registry_pipelines, entry.id, entry)
    /\ by_name' = MapInsert(by_name, <<entry.name, entry.namespace>>, entry.id)
    /\ last_get' = [op |-> "register", found |-> None]
    /\ UNCHANGED otherThanRegistry

\* unregister: pipelines.remove(&id)? returns None for an unknown id;
\* otherwise the key of the removed entry is removed from by_name.
Unregister(id) ==
    /\ IF MapGet(registry_pipelines, id) = None
       THEN UNCHANGED <<registry_pipelines, by_name>>
       ELSE LET entry == registry_pipelines[id]
            IN  /\ registry_pipelines' = MapRemove(registry_pipelines, id)
                /\ by_name' = MapRemove(by_name, <<entry.name, entry.namespace>>)
    /\ last_get' = [op |-> "unregister", found |-> MapGet(registry_pipelines, id)]
    /\ UNCHANGED otherThanRegistry

\* get_by_name: by_name.get(&key).copied()? and then get(id).
GetByNameResult(name, namespace) ==
    LET id == MapGet(by_name, <<name, namespace>>)
    IN  IF id = None THEN None ELSE MapGet(registry_pipelines, Unwrap(id))

GetByName(name, namespace) ==
    /\ last_get' = [op |-> "get_by_name", found |-> GetByNameResult(name, namespace)]
    /\ UNCHANGED <<registry_pipelines, by_name>>
    /\ UNCHANGED otherThanRegistry

InitRegistryIdle ==
    /\ registry_pipelines = << >>
    /\ by_name = << >>
    /\ last_get = [op |-> "none", found |-> None]

(***************************************************************************)
(* BatchProcessor (flywheel-inference/src/batch.rs).  The feature vectors  *)
(* are numbered in arrival order.  bh is the history of the calls: the     *)
(* vectors added, the batches returned so far one after the other, and the *)
(* last call with the batch it returned.                                   *)
(***************************************************************************)
\* BatchProcessor::new(batch_size)
NewBatchProcessor(batch_size) == [batch_size |-> batch_size, buffer |-> << >>]

\* An add that hands the buffer over one item late.
BufferOverFull(len, batch_size) == len > batch_size

\* self.buffer.len() >= self.batch_size
BufferFull(len, batch_size) == len >= batch_size

\* std::mem::take(&mut self.buffer): the buffer is returned and left empty.
TakeBuffer(p) == [p |-> [p EXCEPT !.buffer = << >>], ret |-> p.buffer]

\* add: push, then the whole buffer is returned when it is full.
BatchAddOutcome(p, features) ==
    LET pushed == [p EXCEPT !.buffer = Append(@, features)]
    IN  IF BufferFull(Len(pushed.buffer), pushed.batch_size)
        THEN [p |-> TakeBuffer(pushed).p, ret |-> Some(TakeBuffer(pushed).ret)]
        ELSE [p |-> pushed, ret |-> None]

BatchAdd ==
    /\ Len(bh.added) < MaxAdds
    /\ LET features == Len(bh.added) + 1
           out == BatchAddOutcome(bp, features)
       IN  /\ bp' = out.p
           /\ bh' = [added |-> Append(bh.added, features),
                     returned |-> IF out.ret = None THEN bh.returned
                                  ELSE bh.returned \o Unwrap(out.ret),
                     op |-> "add", ret |-> out.ret, flushes |-> bh.flushes]
    /\ UNCHANGED otherThanBatch

\* flush: the buffer, whatever its length.
BatchFlush ==
    /\ bh.flushes < MaxAdds
    /\ bp' = TakeBuffer(bp).p
    /\ bh' = [bh EXCEPT !.returned = @ \o TakeBuffer(bp).ret,
                        !.op = "flush", !.ret = Some(TakeBuffer(bp).ret),
                        !.flushes = @ + 1]
    /\ UNCHANGED otherThanBatch

InitBatchIdle ==
    /\ bp = NewBatchProcessor(0)
    /\ bh = [added |-> << >>, returned |-> << >>, op |-> "none", ret |-> None,
             flushes |-> 0]

InitBatch ==
    /\ \E batch_size \in 1..MaxBatchSize : bp = NewBatchProcessor(batch_size)
    /\ bh = [added |-> << >>, returned |-> << >>, op |-> "none", ret |-> None,
             flushes |-> 0]

(***************************************************************************)
(* Sampler::sample in ReservoirSampling mode                               *)
(* (flywheel-ml-training/src/sampling.rs), over the sampler variables.     *)
(* sampled_out is the set of the examples that sample() calls have         *)
(* returned so far, last_sample what the last one returned.                *)
(***************************************************************************)
\* The elements of a Vec.
Elems(vec) == {vec[i] : i \in DOMAIN vec}

\* for example in examples { reservoir.add(example) }: the examples are
\* numbered first + 1 .. first + k, js[i] is what gen_range returned for the
\* i-th of them.
RECURSIVE AddEach(_, _, _, _)
AddEach(r, first, k, js) ==
    IF k = 0 THEN r
    ELSE ReservoirAdd(AddEach(r, first, k - 1, js), first + k, js[k])

\* ReservoirSampler::get_sample: self.reservoir.clone()
GetSample(r) == r.reservoir

\* Sampler::sample(examples) with k examples: every example is added, then
\* get_sample() is returned; the reservoir stays as it is.
SampleBatch(k) ==
    /\ examples_made + k <= MaxExamples
    /\ \E js \in [1..k -> 0..(samp.count + k - 1)] :
          /\ \A i \in 1..k : js[i] < samp.count + i
          /\ samp' = AddEach(samp, examples_made, k, js)
    /\ examples_made' = examples_made + k
    /\ samp_added' = samp_added \cup (examples_made + 1)..(examples_made + k)
    /\ last_sample' = Some(GetSample(samp'))
    /\ sampled_out' = sampled_out \cup Elems(GetSample(samp'))
    /\ UNCHANGED <<sampling_size, drained>>
    /\ UNCHANGED <<appVars, corrVars, catalogVars, driftVars, streamVars, psiVars,
                   detVars, modelVars, exportVars, inferVars, healthVars,
                   registryVars, batchVars>>

InitHandedIdle ==
    /\ sampled_out = {}
    /\ last_sample = None

InitLibIdle ==
    /\ InitCorrIdle
    /\ InitCatalogIdle
    /\ InitDriftIdle
    /\ InitStreamIdle
    /\ InitSampIdle
    /\ InitPsiIdle
    /\ InitDetIdle
    /\ InitModelIdle
    /\ InitExportIdle
    /\ InitInferIdle
    /\ InitHealthIdle
    /\ InitRegistryIdle
    /\ InitBatchIdle
    /\ InitHandedIdle

\* The library components other than one, not in use.
InitLibIdleOtherThanCorr ==
    /\ InitCatalogIdle
    /\ InitDriftIdle
    /\ InitStreamIdle
    /\ InitSampIdle
    /\ InitPsiIdle
    /\ InitDetIdle
    /\ InitModelIdle
    /\ InitExportIdle
    /\ InitInferIdle
    /\ InitHealthIdle
    /\ InitRegistryIdle
    /\ InitBatchIdle
    /\ InitHandedIdle

InitLibIdleOtherThanCatalog ==
    /\ InitCorrIdle
    /\ InitDriftIdle
    /\ InitStreamIdle
    /\ InitSampIdle
    /\ InitPsiIdle
    /\ InitDetIdle
    /\ InitModelIdle
    /\ InitExportIdle
    /\ InitInferIdle
    /\ InitHealthIdle
    /\ InitRegistryIdle
    /\ InitBatchIdle
    /\ InitHandedIdle

InitLibIdleOtherThanDrift ==
    /\ InitCorrIdle
    /\ InitCatalogIdle
    /\ InitStreamIdle
    /\ InitSampIdle
    /\ InitPsiIdle
    /\ InitDetIdle
    /\ InitModelIdle
    /\ InitExportIdle
    /\ InitInferIdle
    /\ InitHealthIdle
    /\ InitRegistryIdle
    /\ InitBatchIdle
    /\ InitHandedIdle

InitLibIdleOtherThanStream ==
    /\ InitCorrIdle
    /\ InitCatalogIdle
    /\ InitDriftIdle
    /\ InitSampIdle
    /\ InitPsiIdle
    /\ InitDetIdle
    /\ InitModelIdle
    /\ InitExportIdle
    /\ InitInferIdle
    /\ InitHealthIdle
    /\ InitRegistryIdle
    /\ InitBatchIdle
    /\ InitHandedIdle

InitLibIdleOtherThanSamp ==
    /\ InitCorrIdle
    /\ InitCatalogIdle
    /\ InitDriftIdle
    /\ InitStreamIdle
    /\ InitPsiIdle
    /\ InitDetIdle
    /\ InitModelIdle
    /\ InitExportIdle
    /\ InitInferIdle
    /\ InitHealthIdle
    /\ InitRegistryIdle
    /\ InitBatchIdle
    /\ InitHandedIdle

InitLibIdleOtherThanPsi ==
    /\ InitCorrIdle
    /\ InitCatalogIdle
    /\ InitDriftIdle
    /\ InitStreamIdle
    /\ InitSampIdle
    /\ InitDetIdle
    /\ InitModelIdle
    /\ InitExportIdle
    /\ InitInferIdle
    /\ InitHealthIdle
    /\ InitRegistryIdle
    /\ InitBatchIdle
    /\ InitHandedIdle

InitLibIdleOtherThanDet ==
    /\ InitCorrIdle
    /\ InitCatalogIdle
    /\ InitDriftIdle
    /\ InitStreamIdle
    /\ InitSampIdle
    /\ InitPsiIdle
    /\ InitModelIdle
    /\ InitExportIdle
    /\ InitInferIdle
    /\ InitHealthIdle
    /\ InitRegistryIdle
    /\ InitBatchIdle
    /\ InitHandedIdle

InitLibIdleOtherThanModel ==
    /\ InitCorrIdle
    /\ InitCatalogIdle
    /\ InitDriftIdle
    /\ InitStreamIdle
    /\ InitSampIdle
    /\ InitPsiIdle
    /\ InitDetIdle
    /\ InitExportIdle
    /\ InitInferIdle
    /\ InitHealthIdle
    /\ InitRegistryIdle
    /\ InitBatchIdle
    /\ InitHandedIdle

InitLibIdleOtherThanExport ==
    /\ InitCorrIdle
    /\ InitCatalogIdle
    /\ InitDriftIdle
    /\ InitStreamIdle
    /\ InitSampIdle
    /\ InitPsiIdle
    /\ InitDetIdle
    /\ InitModelIdle
    /\ InitInferIdle
    /\ InitHealthIdle
    /\ InitRegistryIdle
    /\ InitBatchIdle
    /\ InitHandedIdle

InitLibIdleOtherThanInfer ==
    /\ InitCorrIdle
    /\ InitCatalogIdle
    /\ InitDriftIdle
    /\ InitStreamIdle
    /\ InitSampIdle
    /\ InitPsiIdle
    /\ InitDetIdle
    /\ InitModelIdle
    /\ InitExportIdle
    /\ InitHealthIdle
    /\ InitRegistryIdle
    /\ InitBatchIdle
    /\ InitHandedIdle

InitLibIdleOtherThanHealth ==
    /\ InitCorrIdle
    /\ InitCatalogIdle
    /\ InitDriftIdle
    /\ InitStreamIdle
    /\ InitSampIdle
    /\ InitPsiIdle
    /\ InitDetIdle
    /\ InitModelIdle
    /\ InitExportIdle
    /\ InitInferIdle
    /\ InitRegistryIdle
    /\ InitBatchIdle
    /\ InitHandedIdle

InitLibIdleOtherThanRegistry ==
    /\ InitCorrIdle
    /\ InitCatalogIdle
    /\ InitDriftIdle
    /\ InitStreamIdle
    /\ InitSampIdle
    /\ InitPsiIdle
    /\ InitDetIdle
    /\ InitModelIdle
    /\ InitExportIdle
    /\ InitInferIdle
    /\ InitHealthIdle
    /\ InitBatchIdle
    /\ InitHandedIdle

InitLibIdleOtherThanBatch ==
    /\ InitCorrIdle
    /\ InitCatalogIdle
    /\ InitDriftIdle
    /\ InitStreamIdle
    /\ InitSampIdle
    /\ InitPsiIdle
    /\ InitDetIdle
    /\ InitModelIdle
    /\ InitExportIdle
    /\ InitInferIdle
    /\ InitHealthIdle
    /\ InitRegistryIdle
    /\ InitHandedIdle

InitLibIdleOtherThanHanded ==
    /\ InitCorrIdle
    /\ InitCatalogIdle
    /\ InitDriftIdle
    /\ InitStreamIdle
    /\ InitSampIdle
    /\ InitPsiIdle
    /\ InitDetIdle
    /\ InitModelIdle
    /\ InitExportIdle
    /\ InitInferIdle
    /\ InitHealthIdle
    /\ InitRegistryIdle
    /\ InitBatchIdle

-----------------------------------------------------------------------------
InitEngine ==
    /\ pipelines = << >>
    /\ created = 0
    /\ engine_pc = "idle"
    /\ running_pipelines = {}
    /\ last_reconcile = "none"
    /\ robj = EmptyBag

\* The engine is constructed over a store in which the control RPCs have
\* left MaxRows pipelines: Pending (created), Running (enabled) or Stopped
\* (disabled), each with a spec_yaml that parses or not.
InitEngineOverStore ==
    /\ pipelines \in [1..MaxRows -> [status : {"Pending", "Running", "Stopped"},
                                     spec_ok : BOOLEAN]]
    /\ created = MaxRows
    /\ engine_pc = "idle"
    /\ running_pipelines = {}
    /\ last_reconcile = "none"
    /\ robj = EmptyBag

InitBreakerIdle ==
    /\ state = "Closed"
    /\ failure_count = 0
    /\ success_count = 0
    /\ last_failure_time = None
    /\ config = [failure_threshold |-> 1, success_threshold |-> 1, reset_timeout |-> 0]
    /\ now = 0
    /\ last_call = [op |-> "none", ret |-> FALSE]
    /\ obs = [streak |-> 0, opened_at |-> None, opened_from |-> "none"]

InitConcIdle ==
    /\ thr = << >>
    /\ lft_readers = {}
    /\ hist = << >>

InitConc ==
    /\ thr = [t \in Threads |-> IdleThread]
    /\ lft_readers = {}
    /\ hist = [t \in Threads |-> << >>]

InitStoreIdle ==
    /\ predictions = << >>
    /\ feedback = << >>
    /\ last_link = [prediction |-> 0, feedback |-> 0, ok |-> FALSE, before |-> None]

InitRunIdle ==
    /\ manifest = << >>
    /\ rn = NewPipelineRunner
    /\ rh = [cycles |-> 0, cycles_at_stop |-> 0, invoked |-> << >>,
             returned_ok |-> 0, returned_ml |-> 0, failed_cycles |-> 0,
             failed_at |-> 0]

\* A new runner over any manifest of 1..NumStages stages.
InitRun ==
    /\ manifest \in UNION {[1..n -> StageTypes] : n \in 1..NumStages}
    /\ rn = NewPipelineRunner
    /\ rh = [cycles |-> 0, cycles_at_stop |-> 0, invoked |-> << >>,
             returned_ok |-> 0, returned_ml |-> 0, failed_cycles |-> 0,
             failed_at |-> 0]

NoJoin == [feedback |-> [feedback_id |-> 0, prediction_id |-> 0, truth |-> FALSE,
                         feedback_time |-> 0],
           outcome |-> "none", is_correct |-> None]

InitFlowIdle ==
    /\ active_models = {}
    /\ max_join_delay_secs = 0
    /\ utc = 0
    /\ last_predict = [model_id |-> "none", status |-> "none", prediction_id |-> 0]
    /\ last_join = NoJoin

\* Any set of models with an Active version, a join transform built
\* with_max_delay(0..MaxDelaySecs).
InitFlow ==
    /\ active_models \in SUBSET ModelIds
    /\ max_join_delay_secs \in 0..MaxDelaySecs
    /\ utc = 0
    /\ last_predict = [model_id |-> "none", status |-> "none", prediction_id |-> 0]
    /\ last_join = NoJoin

\* A store with one pipeline, and with or without a pipeline row of id nil
\* provisioned for ad-hoc predictions.
InitStoreWithPipelines ==
    /\ pipelines \in {(1 :> [status |-> "Running", spec_ok |-> TRUE]),
                      (NilUuid :> [status |-> "Stopped", spec_ok |-> TRUE])
                         @@ (1 :> [status |-> "Running", spec_ok |-> TRUE])}
    /\ created = 1
    /\ engine_pc = "idle"
    /\ running_pipelines = {}
    /\ last_reconcile = "none"
    /\ robj = EmptyBag

\* A new breaker under any configuration with thresholds of at least 1.
InitBreaker ==
    /\ state = NewBreaker.state
    /\ failure_count = NewBreaker.failure_count
    /\ success_count = NewBreaker.success_count
    /\ last_failure_time = NewBreaker.last_failure_time
    /\ config \in [failure_threshold : 1..MaxThreshold,
                   success_threshold : 1..MaxThreshold,
                   reset_timeout : 0..MaxTimeout]
    /\ now = 0
    /\ last_call = [op |-> "none", ret |-> FALSE]
    /\ obs = [streak |-> 0, opened_at |-> None, opened_from |-> "none"]

Init == InitEngine /\ InitBreakerIdle /\ InitConcIdle /\ InitStoreIdle /\ InitRunIdle /\ InitFlowIdle /\ InitLibIdle

Next ==
    \/ CreatePipeline
    \/ \E p \in 1..MaxPipelines : EnablePipeline(p)
    \/ \E p \in 1..MaxPipelines : DisablePipeline(p)
    \/ \E p \in 1..MaxPipelines : DeletePipeline(p)
    \/ ReconcileList
    \/ ReconcileListFails
    \/ ReconcileApply
    \/ StopAll
    \/ \E o \in BagToSet(robj) : RunnerStart(o)
    \/ \E o \in BagToSet(robj) : RunnerCheck(o)
    \/ \E o \in BagToSet(robj) : RunnerStage(o)
    \/ \E o \in BagToSet(robj) : RunnerWake(o)
    \/ \E o \in BagToSet(robj) : RunnerCancelled(o)

Spec == Init /\ [][Next]_vars

InitB == InitEngine /\ InitBreaker /\ InitConcIdle /\ InitStoreIdle /\ InitRunIdle /\ InitFlowIdle /\ InitLibIdle

NextBreaker ==
    \/ CanExecute
    \/ RecordSuccess
    \/ RecordFailure
    \/ Tick

SpecBreaker == InitB /\ [][NextBreaker]_vars

InitC == InitEngine /\ InitBreaker /\ InitConc /\ InitStoreIdle /\ InitRunIdle /\ InitFlowIdle /\ InitLibIdle

NextBreakerConc ==
    \/ \E t \in Threads, op \in Ops : Call(t, op)
    \/ \E t \in Threads : ReadState(t)
    \/ \E t \in Threads : CanReadLft(t)
    \/ \E t \in Threads : CanWriteHalfOpen(t)
    \/ \E t \in Threads : CanStoreSc(t)
    \/ \E t \in Threads : SuccStoreFc(t)
    \/ \E t \in Threads : SuccIncrSc(t)
    \/ \E t \in Threads : SuccWriteClosed(t)
    \/ \E t \in Threads : FailIncrFc(t)
    \/ \E t \in Threads : FailWriteOpen(t)
    \/ \E t \in Threads : FailWriteLft(t)
    \/ Tick

SpecBreakerConc == InitC /\ [][NextBreakerConc]_vars

NextStore ==
    \/ PredictionCreate
    \/ \E p \in PredictionIds : FeedbackCreate(p)
    \/ \E p \in PredictionIds, f \in FeedbackIds : LinkFeedback(p, f)

SpecStore == Init /\ [][NextStore]_vars

InitT == InitEngineOverStore /\ InitBreakerIdle /\ InitConcIdle /\ InitStoreIdle
            /\ InitRunIdle /\ InitFlowIdle /\ InitLibIdle

NextTick ==
    \/ \E p \in 1..MaxRows : DisablePipeline(p)
    \/ \E p \in 1..MaxRows : DeletePipeline(p)
    \/ ReconcileList
    \/ ReconcileListFails
    \/ ReconcileApply
    \/ \E o \in BagToSet(robj) : RunnerStart(o)
    \/ \E o \in BagToSet(robj) : RunnerCheck(o)
    \/ \E o \in BagToSet(robj) : RunnerStage(o)
    \/ \E o \in BagToSet(robj) : RunnerWake(o)
    \/ \E o \in BagToSet(robj) : RunnerCancelled(o)

SpecTick == InitT /\ [][NextTick]_vars

InitF == InitStoreWithPipelines /\ InitBreakerIdle /\ InitConcIdle /\ InitStoreIdle
            /\ InitRunIdle /\ InitFlow /\ InitLibIdle

NextFlow ==
    \/ \E m \in ModelIds : Predict(m)
    \/ \E b \in BOOLEAN : StorePrediction(1, b)
    \/ \E f \in FeedbackRecords : ProcessFeedback(f)
    \/ UtcTick

SpecFlow == InitF /\ [][NextFlow]_vars

InitR == InitEngine /\ InitBreakerIdle /\ InitConcIdle /\ InitStoreIdle /\ InitRun /\ InitFlowIdle /\ InitLibIdle

RunnerTask ==
    \/ RunFirstPoll
    \/ RunLoopHead
    \/ \E res \in StageResults : ExecuteStage(res)
    \/ RunSleepDone

NextRunner ==
    \/ Stop
    \/ RunnerTask

SpecRunner == InitR /\ [][NextRunner]_vars

\* The runtime keeps polling a task that can run, and a sleep ends.
SpecRunnerFair == SpecRunner /\ WF_vars(RunnerTask)

InitAppIdle ==
    InitEngine /\ InitBreakerIdle /\ InitConcIdle /\ InitStoreIdle
        /\ InitRunIdle /\ InitFlowIdle

InitCC == InitAppIdle /\ InitCorrIdle /\ InitLibIdleOtherThanCorr

NextCorrect ==
    \E p \in PredictionResults, g \in GroundTruths : CallComputeCorrectness(p, g)

SpecCorrect == InitCC /\ [][NextCorrect]_vars

InitCtl == InitAppIdle /\ InitLibIdle

NextControl ==
    \/ \E req \in CreatePipelineRequests : CreatePipelineRpc(req)
    \/ \E p \in 1..MaxRows : EnablePipeline(p)
    \/ \E p \in 1..MaxRows : DeletePipeline(p)

SpecControl == InitCtl /\ [][NextControl]_vars

InitD == InitStoreWithPipelines /\ InitBreakerIdle /\ InitConcIdle /\ InitStoreIdle
            /\ InitRunIdle /\ InitFlowIdle /\ InitLibIdle

NextDrift ==
    \/ \E p \in {NilUuid, 1}, m \in DriftModelIds : DriftEventCreate(p, m)
    \/ \E id \in 1..MaxDriftEvents : DriftEventResolve(id)

SpecDrift == InitD /\ [][NextDrift]_vars

InitPS == InitStoreWithPipelines /\ InitBreakerIdle /\ InitConcIdle /\ InitStoreIdle
            /\ InitRunIdle /\ InitFlow /\ InitLibIdle

NextStream ==
    \/ \E m \in StreamModelIds : StreamSend(m)
    \/ StreamClose
    \/ StreamServe

SpecStream == InitPS /\ [][NextStream]_vars

InitSP == InitAppIdle /\ InitSamp /\ InitLibIdleOtherThanSamp

NextSampler ==
    \/ SampleOne
    \/ DrainReservoir

SpecSampler == InitSP /\ [][NextSampler]_vars

InitPSI == InitAppIdle /\ InitPsi /\ InitLibIdleOtherThanPsi

NextPsi == ComputePsi

SpecPsi == InitPSI /\ [][NextPsi]_vars

InitDT == InitAppIdle /\ InitDet /\ InitLibIdleOtherThanDet

NextDetector ==
    \/ SetReference
    \/ AddValue
    \/ \E psi \in PsiScores : CheckDrift(psi)

SpecDetector == InitDT /\ [][NextDetector]_vars

InitMV == InitAppIdle /\ InitModel /\ InitLibIdleOtherThanModel

NextModel ==
    \/ \E m \in VersionModelIds \cup {""}, at \in 0..MaxDeployTime : RegisterModel(m, at)
    \/ \E m \in VersionModelIds : FindByModelId(m)

SpecModel == InitMV /\ [][NextModel]_vars

InitEX == InitAppIdle /\ InitLibIdle

ExportBatches ==
    UNION {[1..n -> ExportModelIds] : n \in 0..2}

NextExport ==
    \/ \E format \in ExportFormat, models \in ExportBatches : ExportBatch(format, models)
    \/ MillisTick

SpecExport == InitEX /\ [][NextExport]_vars

InitIT == InitB

NextInference ==
    \/ \E res \in ModelResults : InferenceProcess(res)
    \/ Tick

SpecInference == InitIT /\ [][NextInference]_vars

NextHealth ==
    \/ \E p \in {NilUuid, 1}, m \in DriftModelIds : DriftEventCreate(p, m)
    \/ \E id \in 1..MaxDriftEvents : DriftEventResolve(id)
    \/ \E p \in {NilUuid, 1} : GetPipelineHealth(p)
    \/ \E p \in {NilUuid, 1} : GetDriftStatus(p)

SpecHealth == InitD /\ [][NextHealth]_vars

\* The engine has reconciled over a store of PageLimit Running pipelines and
\* holds a runner for each; the control RPCs have then created and enabled
\* one more pipeline.  Every spec_yaml parses.
InitPG ==
    /\ pipelines = [p \in 1..(PageLimit + 1) |-> [status |-> "Running", spec_ok |-> TRUE]]
    /\ created = PageLimit + 1
    /\ engine_pc = "idle"
    /\ running_pipelines = {}
    /\ last_reconcile = "ok"
    /\ robj = SetToBag({NewRunner([id |-> p, spec_ok |-> TRUE]) : p \in 1..PageLimit})
    /\ InitBreakerIdle /\ InitConcIdle /\ InitStoreIdle /\ InitRunIdle /\ InitFlowIdle
    /\ InitLibIdle

\* reconcile, first half, while no runner has been stopped yet.
ReconcileListUntilStop ==
    /\ \A o \in BagToSet(robj) : o.attached
    /\ ReconcileList

NextPage ==
    \/ ReconcileListUntilStop
    \/ ReconcileApply

SpecPage == InitPG /\ [][NextPage]_vars

InitRG == InitAppIdle /\ InitLibIdle

NextRegistry ==
    \/ \E entry \in PipelineEntries : Register(entry)
    \/ \E id \in 1..MaxEntryIds : Unregister(id)
    \/ \E name \in {"a", "b"}, namespace \in {"default", "prod"} : GetByName(name, namespace)

SpecRegistry == InitRG /\ [][NextRegistry]_vars

InitBP == InitAppIdle /\ InitBatch /\ InitLibIdleOtherThanBatch

NextBatch ==
    \/ BatchAdd
    \/ BatchFlush

SpecBatch == InitBP /\ [][NextBatch]_vars

InitSB == InitAppIdle /\ InitSamp /\ InitLibIdleOtherThanSamp

NextSampleBatch ==
    \/ \E k \in 0..MaxSampleLen : SampleBatch(k)
    \/ SampleOne
    \/ DrainReservoir

SpecSampleBatch == InitSB /\ [][NextSampleBatch]_vars

-----------------------------------------------------------------------------
(***************************************************************************)
(* Properties of the execution engine.                                     *)
(***************************************************************************)

\* The steps of reconcile().
ListStep == engine_pc = "idle" /\ engine_pc' = "listed"
ApplyStep == engine_pc = "listed" /\ engine_pc' = "idle"
ListedIds == {m.id : m \in running_pipelines}

\* C1: the listing of a reconcile holds exactly the pipelines whose persisted
\* status is Running at that moment, and when that reconcile completes the
\* keys of the runner map are exactly the listed pipelines whose manifest
\* parses: each of them has a runner, and no pipeline that was not Running
\* in the listing (Pending, Stopped, Failed, Disabled or deleted) has one.
C1_ReconcileConverges ==
    [][ /\ ListStep =>
             {m.id : m \in running_pipelines'} =
                 {p \in DOMAIN pipelines : pipelines[p].status = "Running"}
        /\ ApplyStep =>
             DOMAIN runners' =
                 {m.id : m \in {x \in running_pipelines : ParsesManifest(x)}}
      ]_vars

\* A reconcile has completed and left a runner for a Running pipeline.
C1_Witness ==
    /\ engine_pc = "idle"
    /\ last_reconcile = "ok"
    /\ DOMAIN runners # {}
    /\ DOMAIN runners = {p \in DOMAIN pipelines :
                            pipelines[p].status = "Running" /\ pipelines[p].spec_ok}

C9_DisableStopsRunner ==
    [][ /\ ListStep =>
             \A p \in DOMAIN pipelines :
                pipelines[p].status = "Stopped" =>
                    p \notin {m.id : m \in running_pipelines'}
        /\ ApplyStep =>
             /\ \A id \in DOMAIN runners \ ListedIds :
                   /\ id \notin DOMAIN runners'
                   /\ \A o \in BagToSet(robj') :
                         o.pipeline = id => ~IsRunning(o)
                   /\ ~TaskLive(runners[id])
                        \/ BagIn(StopHandle(runners[id]), robj')
             /\ DOMAIN runners \cap ListedIds \subseteq DOMAIN runners'
      ]_vars

\* A disabled pipeline after the reconcile that removed its runner: the map
\* is empty and the removed runner, whose task still exists, is not running.
C9_Witness ==
    /\ engine_pc = "idle"
    /\ last_reconcile = "ok"
    /\ ActiveCount = 0
    /\ \E p \in DOMAIN pipelines :
          /\ pipelines[p].status = "Stopped"
          /\ \E o \in BagToSet(robj) : o.pipeline = p /\ ~IsRunning(o)

\* C10: stopping is cooperative first: in the step in which the engine takes
\* a runner out of the map and sets its stop flag, the task is not aborted
\* yet; it is left to reach its next cycle boundary during a grace period.
C10_CooperativeFirst ==
    [][ \A id \in DOMAIN runners :
           (id \notin DOMAIN runners' /\ TaskLive(runners[id])) =>
              BagIn([RunnerStop(runners[id]) EXCEPT !.attached = FALSE], robj')
      ]_vars

-----------------------------------------------------------------------------
(***************************************************************************)
(* Properties of the circuit breaker with one caller.                      *)
(***************************************************************************)

\* C2: with one caller, a record_failure in Closed opens the breaker exactly
\* when it is the failure_threshold-th failure since the last record_success
\* (or since the breaker closed); a record_success in Closed zeroes
\* failure_count, so that fewer than failure_threshold failures in a row
\* leave the breaker Closed.
C2_ClosedFailuresOpen ==
    /\ [](state = "Closed" =>
            /\ failure_count = obs.streak
            /\ obs.streak < config.failure_threshold)
    /\ [][ (RecordFailure /\ state = "Closed") =>
             /\ state' \in {"Closed", "Open"}
             /\ state' = "Open" <=> obs'.streak = config.failure_threshold
         ]_vars
    /\ [][ (RecordSuccess /\ state = "Closed") =>
             state' = "Closed" /\ failure_count' = 0
         ]_vars

\* The second of two failures in a row has just opened a breaker whose
\* threshold is two.
C2_Witness ==
    /\ state = "Open"
    /\ obs.opened_from = "Closed"
    /\ config.failure_threshold >= 2
    /\ failure_count = config.failure_threshold
    /\ last_call.op = "record_failure"

\* C3: with one caller, can_execute on an Open breaker returns false and
\* leaves it Open while no more than reset_timeout has elapsed since the
\* failure that opened it; the first can_execute after more than
\* reset_timeout returns true, makes the breaker HalfOpen and zeroes
\* success_count.
C3_OpenUntilTimeout ==
    /\ [](state = "Open" => obs.opened_at # None)
    /\ [][ (CanExecute /\ state = "Open") =>
             IF now - Unwrap(obs.opened_at) > config.reset_timeout
             THEN /\ last_call'.ret = TRUE
                  /\ state' = "HalfOpen"
                  /\ success_count' = 0
             ELSE /\ last_call'.ret = FALSE
                  /\ state' = "Open"
         ]_vars

\* can_execute has just probed an Open breaker after the timeout.
C3_Witness ==
    /\ state = "HalfOpen"
    /\ last_call = [op |-> "can_execute", ret |-> TRUE]
    /\ success_count = 0
    /\ obs.opened_at # None
    /\ now - Unwrap(obs.opened_at) > config.reset_timeout
    /\ config.reset_timeout >= 1

\* C4: with one caller, each record_success in HalfOpen adds one to
\* success_count; the breaker stays HalfOpen while success_count is below
\* success_threshold and becomes Closed, with failure_count 0, exactly on the
\* success that brings success_count to success_threshold.
C4_HalfOpenSuccesses ==
    /\ [](state = "HalfOpen" => success_count < config.success_threshold)
    /\ [][ (RecordSuccess /\ state = "HalfOpen") =>
             /\ success_count' = success_count + 1
             /\ IF success_count' = config.success_threshold
                THEN state' = "Closed" /\ failure_count' = 0
                ELSE state' = "HalfOpen"
         ]_vars

\* Two successes in HalfOpen have closed a breaker whose threshold is two.
C4_Witness ==
    /\ state = "Closed"
    /\ last_call.op = "record_success"
    /\ obs.opened_at # None
    /\ config.success_threshold >= 2
    /\ success_count = config.success_threshold
    /\ failure_count = 0

\* C5: with one caller, a record_failure in HalfOpen opens the breaker
\* whatever success_count is and records the instant of the failure, and
\* can_execute then returns false until more than reset_timeout has elapsed
\* since that failure.
C5_HalfOpenFailure ==
    /\ [][ (RecordFailure /\ state = "HalfOpen") =>
             /\ state' = "Open"
             /\ last_failure_time' = Some(now)
             /\ success_count' = success_count
         ]_vars
    /\ [][ ( /\ CanExecute
             /\ state = "Open"
             /\ obs.opened_from = "HalfOpen"
             /\ now - Unwrap(obs.opened_at) <= config.reset_timeout ) =>
             last_call'.ret = FALSE /\ state' = "Open"
         ]_vars

\* A failure after one counted success has reopened the breaker and
\* can_execute has been refused since.
C5_Witness ==
    /\ state = "Open"
    /\ obs.opened_from = "HalfOpen"
    /\ success_count >= 1
    /\ last_call = [op |-> "can_execute", ret |-> FALSE]

-----------------------------------------------------------------------------
(***************************************************************************)
(* Properties of the circuit breaker with concurrent callers.              *)
(***************************************************************************)

\* C6: transitions are linearizable: whenever no call is in progress, state,
\* failure_count and success_count are those that the calls made so far
\* produce when made one at a time in some order.
C6_Linearizable ==
    (\A t \in Threads : thr[t].pc = "idle") =>
        Counters(Breaker) \in
            {Counters(b) : b \in SeqOutcomes(NewBreaker, hist)}

-----------------------------------------------------------------------------
(***************************************************************************)
(* Properties of the prediction store.                                     *)
(***************************************************************************)

\* C7: link_feedback is a conditional write: a call succeeds only if the
\* prediction's feedback_id is null, so a feedback_id once stored is never
\* changed by a later call.
C7_LinkConditional ==
    [][\A p \in DOMAIN predictions :
          predictions[p].feedback_id # None =>
              /\ predictions'[p].feedback_id = predictions[p].feedback_id
              /\ (last_link' # last_link /\ last_link'.prediction = p)
                    => ~last_link'.ok]_vars

-----------------------------------------------------------------------------
(***************************************************************************)
(* Properties of one pipeline runner.                                      *)
(***************************************************************************)

\* C11: once stop() has been called the flag stays false, no new cycle is
\* started (the number of cycles started stays what it was at the stop, so
\* at most the cycle in progress is finished), and run() returns.
C11_StopTerminates ==
    /\ [](~rn.running => rh.cycles = rh.cycles_at_stop)
    /\ [][~rn.running => ~rn'.running]_vars
    /\ (~rn.running) ~> (rn.pc = "finished")

\* run() has returned after a stop() that came when a cycle had been started.
C11_Witness ==
    /\ ~rn.running
    /\ rn.pc = "finished"
    /\ rh.cycles_at_stop >= 1

\* C12: in a cycle the stages are invoked in manifest order, each at most
\* once and one after the other; a stage that returns an error ends the
\* cycle (no later stage is invoked) and adds exactly 1 to errors, and
\* errors changes in no other way.
C12_StagesInOrder ==
    /\ [](/\ rh.invoked = [i \in 1..Len(rh.invoked) |-> i]
          /\ Len(rh.invoked) <= Len(manifest)
          /\ rn.pc = "stage" => rn.idx = Len(rh.invoked) + 1
          /\ rn.errors = rh.failed_cycles)
    /\ [][ /\ rh'.failed_cycles # rh.failed_cycles =>
                /\ rn'.pc = "sleep"
                /\ rn'.errors = rn.errors + 1
                /\ rh'.invoked = Append(rh.invoked, rn.idx)
           /\ (rn.pc = "stage" /\ rh'.invoked # rh.invoked /\ rn'.pc = "stage") =>
                /\ rh'.invoked = Append(rh.invoked, rn.idx)
                /\ rn'.idx = rn.idx + 1
                /\ rn'.errors = rn.errors
         ]_vars

\* The first stage of a cycle of two stages failed: the cycle is over with
\* the second stage not invoked and errors counted once.
C12_Witness ==
    /\ Len(manifest) = 2
    /\ rn.pc = "sleep"
    /\ rh.invoked = <<1>>
    /\ rn.errors = 1

-----------------------------------------------------------------------------
(***************************************************************************)
(* Properties of a reconcile over several pipelines.                       *)
(***************************************************************************)

\* C14: when a reconcile completes, every listed pipeline whose manifest
\* does not parse has no runner in the map and its row, if it still exists
\* and update_status did not fail on it, has status Failed; and every listed
\* pipeline whose manifest parses has a runner, whatever happened to the
\* other pipelines of the listing.
C14_ParseFailureMarksFailed ==
    [][ ApplyStep =>
        \A faults \in SUBSET {m.id : m \in running_pipelines} :
          ReconcileApplyWith(faults) =>
             /\ \A m \in {x \in running_pipelines : ~ParsesManifest(x)} :
                   /\ m.id \notin DOMAIN runners'
                   /\ m.id \in DOMAIN pipelines \ faults =>
                         pipelines'[m.id].status = "Failed"
             /\ \A m \in {x \in running_pipelines : ParsesManifest(x)} :
                   m.id \in DOMAIN runners'
      ]_vars

\* A reconcile has completed over two Running pipelines: the one whose
\* manifest does not parse is Failed and has no runner, the other has one.
C14_Witness ==
    /\ engine_pc = "idle"
    /\ last_reconcile = "ok"
    /\ \E p, q \in DOMAIN pipelines :
          /\ ~pipelines[p].spec_ok
          /\ pipelines[p].status = "Failed"
          /\ p \notin DOMAIN runners
          /\ pipelines[q].status = "Running"
          /\ q \in DOMAIN runners

\* C15: a reconcile whose listing fails changes no runner, no entry of the
\* map and no pipeline row, and leaves the engine loop at its head, where the
\* next reconcile starts; the loop is never left.
C15_ListFailureKeepsAll ==
    /\ [](engine_pc \in {"idle", "listed"})
    /\ [][ (engine_pc = "idle" /\ last_reconcile # "err" /\ last_reconcile' = "err") =>
             /\ robj' = robj
             /\ runners' = runners
             /\ pipelines' = pipelines
             /\ engine_pc' = "idle"
         ]_vars

\* The last reconcile failed at its listing while a runner was running; the
\* runner is still in the map and running, and the loop is at its head.
C15_Witness ==
    /\ last_reconcile = "err"
    /\ engine_pc = "idle"
    /\ \E id \in DOMAIN runners : IsRunning(runners[id]) /\ TaskLive(runners[id])

-----------------------------------------------------------------------------
(***************************************************************************)
(* Properties of predict and of the feedback join.                         *)
(***************************************************************************)

\* C16: predict for a model with an Active version succeeds, appends exactly
\* one prediction row, with feedback_id null, and returns that row's id; for
\* a model without an Active version it returns NotFound and writes nothing.
C16_PredictPersists ==
    [][ \A m \in ModelIds :
          Predict(m) =>
             IF m \in active_models
             THEN /\ last_predict'.status = "Ok"
                  /\ Len(predictions') = Len(predictions) + 1
                  /\ predictions'[Len(predictions')].feedback_id = None
                  /\ last_predict'.prediction_id = Len(predictions')
             ELSE /\ last_predict'.status = "NotFound"
                  /\ predictions' = predictions
      ]_vars

\* C17: a Binary(b) feedback for a row that predict wrote, processed within
\* max_join_delay, yields a labeled example whose is_correct is
\* (is_anomaly = b) for the stored prediction.
C17_JoinAfterPredict ==
    [][ \A f \in FeedbackRecords :
          ( /\ ProcessFeedback(f)
            /\ f.prediction_id \in DOMAIN predictions
            /\ predictions[f.prediction_id].prediction_json = PredictJson
            /\ f.feedback_time - predictions[f.prediction_id].created_at
                  \in 0..(max_join_delay_secs * TicksPerSecond) )
          => /\ last_join'.outcome = "Some"
             /\ last_join'.is_correct = Some(PredictJson.is_anomaly = f.truth)
      ]_vars

\* C18: when the join emits a labeled example for feedback F and prediction
\* P, the feedback_id of P, null before, is F's id afterwards.
C18_JoinLinksFeedback ==
    [][ \A f \in FeedbackRecords :
          (ProcessFeedback(f) /\ last_join'.outcome = "Some")
          => /\ predictions[f.prediction_id].feedback_id = None
             /\ predictions'[f.prediction_id].feedback_id = Some(f.feedback_id)
      ]_vars

\* C19: every prediction P whose feedback_id is F has a feedback row F whose
\* prediction_id is P.
C19_BackReferenceConsistent ==
    \A p \in DOMAIN predictions :
        predictions[p].feedback_id # None =>
            LET F == Unwrap(predictions[p].feedback_id)
            IN  /\ F \in DOMAIN feedback
                /\ feedback[F].prediction_id = p

\* C20: for a prediction that is present, deserializes and is not expired,
\* process emits nothing when feedback_time - prediction_time is greater
\* than max_join_delay by any amount, and emits a labeled example when it is
\* at most max_join_delay.
C20_JoinDelayExact ==
    [][ \A f \in FeedbackRecords :
          ( /\ ProcessFeedback(f)
            /\ f.prediction_id \in DOMAIN predictions
            /\ FromValue(predictions[f.prediction_id].prediction_json) # None )
          => LET d == f.feedback_time - predictions[f.prediction_id].created_at
                 max == max_join_delay_secs * TicksPerSecond
             IN  /\ d > max => last_join'.outcome = "None"
                 /\ d <= max => last_join'.outcome = "Some"
      ]_vars

\* C21: when the prediction a feedback record names is not in the store,
\* process returns Ok(None): a skip, not an error.
C21_MissingPredictionSkipped ==
    [][ \A f \in FeedbackRecords :
          (ProcessFeedback(f) /\ f.prediction_id \notin DOMAIN predictions)
          => last_join'.outcome = "None"
      ]_vars

-----------------------------------------------------------------------------
(***************************************************************************)
(* Properties of compute_correctness.                                      *)
(***************************************************************************)

\* The table of correctness: the row for a (prediction, ground truth) pair,
\* or unknown (None) when the pair has no row.
CaseInsensitiveEqual(a, b) ==
    /\ Len(a) = Len(b)
    /\ \A i \in DOMAIN a : ToAsciiLowercase(a[i]) = ToAsciiLowercase(b[i])

CorrectnessTable(p, g) ==
    IF p.variant = "Anomaly" /\ g.variant = "Binary"
        THEN Some(p.is_anomaly = g.truth)
    ELSE IF p.variant = "Anomaly" /\ g.variant = "Label"
        THEN Some(p.is_anomaly = (ToLowercase(g.label) \in PositiveLabels))
    ELSE IF p.variant = "Classification" /\ g.variant = "Label"
        THEN Some(CaseInsensitiveEqual(p.class, g.label))
    ELSE IF p.variant = "Regression" /\ g.variant = "Value"
        THEN Some(10 * Abs(p.value - g.value) <= Abs(g.value))
    ELSE None

-----------------------------------------------------------------------------
(***************************************************************************)
(* Properties of create_pipeline.                                          *)
(***************************************************************************)

\* C23: at most one pipeline exists per (name, namespace): a create with the
\* (name, namespace) of an existing pipeline inserts nothing, leaves that
\* pipeline unchanged and returns InvalidArgument, and find_by_name returns
\* exactly the first pipeline.
C23_CreateUniquePerName ==
    [][ \A req \in CreatePipelineRequests :
          (CreatePipelineRpc(req) /\ req.name # ""
              /\ FindByName(pipelines, req.name, req.namespace) # {})
          => /\ pipelines' = pipelines
             /\ last_create'.status = "InvalidArgument"
             /\ Cardinality(FindByName(pipelines', req.name, req.namespace)) = 1
      ]_vars

\* C24: create_pipeline inserts a row, in status Pending, only when spec_yaml
\* parses as a manifest and passes validation; for any other spec_yaml it
\* returns an error and inserts nothing.
C24_CreateValidatesSpec ==
    [][ \A req \in CreatePipelineRequests :
          CreatePipelineRpc(req) =>
             IF ParseManifest(req.spec_yaml) /\ ValidateManifest(req.spec_yaml)
             THEN last_create'.status = "Ok" =>
                     /\ DOMAIN pipelines' = DOMAIN pipelines \cup {created'}
                     /\ pipelines'[created'].status = "Pending"
             ELSE /\ last_create'.status # "Ok"
                  /\ pipelines' = pipelines
      ]_vars

-----------------------------------------------------------------------------
(***************************************************************************)
(* Properties of the drift events.                                         *)
(***************************************************************************)

\* C25: at most one drift event is open (resolved_at null) per
\* (pipeline_id, model_id).
C25_OneOpenEventPerPair ==
    \A i, j \in DOMAIN drift_events :
        ( /\ IsOpen(drift_events[i]) /\ IsOpen(drift_events[j])
          /\ drift_events[i].pipeline_id = drift_events[j].pipeline_id
          /\ drift_events[i].model_id = drift_events[j].model_id )
        => i = j

-----------------------------------------------------------------------------
(***************************************************************************)
(* Properties of predict_stream.                                           *)
(***************************************************************************)

\* C26: the i-th item of the response stream answers the i-th request, and
\* when the response stream has ended every request sent on the stream,
\* those after a failed model lookup included, has its item.
C26_OneResponsePerRequest ==
    /\ \A i \in DOMAIN stream_out : stream_out[i].request = i
    /\ stream_pc = "ended" => Len(stream_out) = Len(stream_sent)

-----------------------------------------------------------------------------
(***************************************************************************)
(* Properties of the reservoir sampler.                                    *)
(***************************************************************************)

Min(a, b) == IF a < b THEN a ELSE b

\* The slots in which two reservoirs of one length differ.
ChangedSlots(before, after) == {i \in DOMAIN before : before[i] # after[i]}

\* C27: a reservoir sampler of size K holds min(N, K) items after N
\* additions; every held item is an added example and no example is in two
\* slots; an arrival up to the K-th is stored, a later one replaces exactly
\* one slot j < K or is dropped.
C27_ReservoirHoldsMinNK ==
    /\ [] ( /\ Len(samp.reservoir) = Min(samp.count, samp.size)
            /\ \A i \in DOMAIN samp.reservoir : samp.reservoir[i] \in samp_added
            /\ \A i, j \in DOMAIN samp.reservoir :
                  samp.reservoir[i] = samp.reservoir[j] => i = j )
    /\ [][ SampleOne =>
             LET e == examples_made'
             IN  IF samp'.count <= samp.size
                 THEN samp'.reservoir = Append(samp.reservoir, e)
                 ELSE \/ samp'.reservoir = samp.reservoir
                      \/ /\ Len(samp'.reservoir) = Len(samp.reservoir)
                         /\ \E s \in 1..samp.size :
                              /\ ChangedSlots(samp.reservoir, samp'.reservoir) = {s}
                              /\ samp'.reservoir[s] = e
         ]_vars

\* A full reservoir of the largest size in which the last arrival has taken
\* the place of an earlier one.
C27_Witness ==
    /\ samp.size = MaxReservoirSize
    /\ samp.count > samp.size
    /\ \E i \in DOMAIN samp.reservoir : samp.reservoir[i] = examples_made

\* C28: drain_reservoir returns the reservoir's contents and leaves an empty
\* reservoir of the configured size, so that a drain after at least `size`
\* additions returns exactly `size` items, whatever was drained before.
C28_DrainResets ==
    [][ DrainReservoir =>
           /\ drained'.samples = samp.reservoir
           /\ samp' = NewReservoirSampler(sampling_size)
           /\ samp.count >= sampling_size => Len(drained'.samples) = sampling_size
      ]_vars

-----------------------------------------------------------------------------
(***************************************************************************)
(* Properties of compute_psi.                                              *)
(***************************************************************************)

\* C29: for a reference of evenly spaced values over [0, 1) and a current
\* equal to the reference moved up by 0.5, in PsiBins bins, the two
\* histograms differ and the PSI is greater than 0 (as it must be to be
\* greater than 0.1).
C29_PsiOfShiftedIsPositive ==
    (psi_out.called /\ psi_in.kind = "shift_half" /\ psi_in.bins = PsiBins)
    => /\ psi_out.ref_hist # psi_out.cur_hist
       /\ psi_out.positive

-----------------------------------------------------------------------------
(***************************************************************************)
(* Properties of the drift detector.                                       *)
(***************************************************************************)

\* C30: on a detector that has had only set_reference and at least MinWindow
\* add_value calls, check_drift reports drift of type Statistical when the
\* PSI is above psi_threshold and no drift, with no type, when it is not;
\* Performance or Both only when the tracked accuracy is below
\* accuracy_threshold.
C30_StatisticalOnly ==
    [][ \A psi \in PsiScores :
          (CheckDrift(psi) /\ det.has_reference /\ det_adds >= MinWindow)
          => /\ IF psi > det.config.psi_threshold
                THEN /\ det_result'.is_drifted
                     /\ det_result'.drift_type = Some("Statistical")
                ELSE /\ ~det_result'.is_drifted
                     /\ det_result'.drift_type = None
             /\ det_result'.drift_type \in {Some("Performance"), Some("Both")}
                   => Accuracy(det.tracker) < det.config.accuracy_threshold
      ]_vars

-----------------------------------------------------------------------------
(***************************************************************************)
(* Properties of the model_versions lookup.                                *)
(***************************************************************************)

\* C31: find_by_model_id returns none exactly when the model has no Active
\* version; otherwise it returns a version of that model in status Active
\* whose deployed_at is the greatest among the Active versions of the
\* model.  A Pending, Deprecated or Failed version is never returned.
C31_LatestActiveReturned ==
    last_find.op = "find" =>
        LET m == last_find.model_id
            NoActive == \A i \in 1..Len(model_versions) :
                            ~(model_versions[i].model_id = m
                              /\ model_versions[i].status = "Active")
        IN  /\ (last_find.found = None) <=> NoActive
            /\ last_find.found # None =>
                 LET r == model_versions[Unwrap(last_find.found)]
                 IN  /\ r.model_id = m
                     /\ r.status = "Active"
                     /\ \A i \in 1..Len(model_versions) :
                            (model_versions[i].model_id = m
                             /\ model_versions[i].status = "Active")
                                => model_versions[i].deployed_at <= r.deployed_at

\* C31 witness: a lookup returned an Active version although a version of the
\* same model registered by RegisterModel (Pending) was deployed later, and
\* an older Active version of the model exists too.
C31_Witness ==
    /\ last_find.op = "find"
    /\ last_find.found # None
    /\ \E i, j \in 1..Len(model_versions) :
           /\ model_versions[i].model_id = last_find.model_id
           /\ model_versions[i].status = "Pending"
           /\ model_versions[i].deployed_at
                  > model_versions[Unwrap(last_find.found)].deployed_at
           /\ model_versions[j].model_id = last_find.model_id
           /\ model_versions[j].status = "Active"
           /\ model_versions[j].deployed_at
                  < model_versions[Unwrap(last_find.found)].deployed_at

-----------------------------------------------------------------------------
(***************************************************************************)
(* Properties of the local exporter.                                       *)
(***************************************************************************)

\* C32: no export_batch call writes to a file written by an earlier call:
\* every example handed to export_batch so far is still in a file, and a
\* step never removes an example from the files under the output directory.
C32_NoExportOverwritten ==
    /\ [](\A id \in 1..exported : \E f \in files : id \in f.content)
    /\ [][\A f \in files : \E g \in files' :
              g.dir = f.dir /\ g.name = f.name /\ f.content \subseteq g.content]_vars

-----------------------------------------------------------------------------
(***************************************************************************)
(* Properties of the circuit breaker under concurrent callers, continued.  *)
(***************************************************************************)

\* More than reset_timeout has elapsed since the record_failure that wrote
\* the present Open state.
TimeoutSinceOpening ==
    /\ obs.opened_at # None
    /\ now - Unwrap(obs.opened_at) > config.reset_timeout

\* C33: with concurrent callers, once a record_failure has written Open, the
\* state does not become HalfOpen, and no can_execute that finds the breaker
\* Open decides to let a call through, until more than reset_timeout has
\* elapsed since that record_failure wrote Open; a failure instant left by
\* an earlier opening is not used.
C33_OpenHoldsUnderRace ==
    [][/\ (state = "Open" /\ state' = "HalfOpen") => TimeoutSinceOpening
       /\ \A t \in Threads :
             (state = "Open" /\ thr[t].pc = "read_lft"
                 /\ thr'[t].pc = "write_halfopen") => TimeoutSinceOpening]_vars

-----------------------------------------------------------------------------
(***************************************************************************)
(* Properties of one runner, continued.  rh.failed_at is the number of the *)
(* last cycle that ended with a stage error.                               *)
(***************************************************************************)

\* C34: a failed cycle does not stop the runner: after cycle c has ended
\* with a stage error, unless stop() is called, the runner eventually starts
\* cycle c + 1 and that cycle begins at the first stage of the manifest.
C34_FailedCycleRetried ==
    \A c \in 1..(MaxCycles - 1) :
        (rh.cycles = c /\ rh.failed_at = c /\ rn.pc # "stage")
            ~> (\/ ~rn.running
                \/ (rh.cycles = c + 1 /\ rn.pc = "stage" /\ rn.idx = 1
                        /\ rh.invoked = << >>))

\* C34 witness: the runner, never stopped, is at the first stage of the cycle
\* that follows a failed one.
C34_Witness ==
    /\ rn.running
    /\ rh.cycles_at_stop = 0
    /\ rh.cycles = 2
    /\ rh.failed_at = 1
    /\ rn.errors = 1
    /\ rn.pc = "stage"
    /\ rn.idx = 1

-----------------------------------------------------------------------------
(***************************************************************************)
(* Properties of InferenceTransform.                                       *)
(***************************************************************************)

\* The breaker lets a call through at this instant: it is not Open, or more
\* than reset_timeout has passed since the recorded failure.
BreakerAdmits ==
    \/ state # "Open"
    \/ (last_failure_time # None
            /\ now - Unwrap(last_failure_time) > config.reset_timeout)

\* C35: process calls the model only when can_execute returned true.  When it
\* returned false the model is not called, CircuitBreakerOpen is returned
\* and the breaker is unchanged.  Otherwise the model is called exactly once
\* and exactly one outcome is recorded: record_success for a prediction
\* (in Closed the failure count returns to 0, in HalfOpen the success count
\* advances or the breaker closes), record_failure for an error (in Closed
\* the failure count advances or the breaker opens, in HalfOpen it opens).
C35_ModelCallGuarded ==
    [][\A res \in ModelResults : InferenceProcess(res) =>
          /\ last_process'.can = BreakerAdmits
          /\ last_process'.model_calls <= 1
          /\ ~BreakerAdmits =>
                /\ last_process'.model_calls = 0
                /\ last_process'.recorded = << >>
                /\ last_process'.ret = "CircuitBreakerOpen"
                /\ <<state, failure_count, success_count, last_failure_time>>'
                       = <<state, failure_count, success_count, last_failure_time>>
          /\ BreakerAdmits =>
                /\ last_process'.model_calls = 1
                /\ last_process'.ret = res
                /\ Len(last_process'.recorded) = 1
                /\ res = "Ok" =>
                      /\ last_process'.recorded = <<"record_success">>
                      /\ state' # "Open"
                      /\ state = "Closed" => state' = "Closed" /\ failure_count' = 0
                      /\ state # "Closed" =>
                            \/ state' = "Closed"
                            \/ (state' = "HalfOpen" /\ success_count' >= 1)
                /\ res = "Err" =>
                      /\ last_process'.recorded = <<"record_failure">>
                      /\ state = "Closed" =>
                            \/ failure_count' = failure_count + 1
                      /\ state # "Closed" =>
                            state' = "Open" /\ last_failure_time' = Some(now)]_vars

\* C35 witness: a process call was refused by an Open breaker after an
\* earlier call's model error had been recorded as a failure.
C35_Witness ==
    /\ last_process.ret = "CircuitBreakerOpen"
    /\ last_process.model_calls = 0
    /\ state = "Open"
    /\ failure_count >= 1
    /\ now > 0

-----------------------------------------------------------------------------
(***************************************************************************)
(* Properties of the drift reports.                                        *)
(***************************************************************************)

\* C36: a successful GetPipelineHealth or GetDriftStatus reports is_drifted
\* exactly when the pipeline has an open drift event, and then the event it
\* summarises is the latest open one.
C36_DriftedIffOpenEvent ==
    [][\A p \in {NilUuid, 1} :
          ((GetPipelineHealth(p) \/ GetDriftStatus(p)) /\ last_health'.status = "Ok") =>
              LET open == {i \in DOMAIN drift_events :
                              drift_events[i].pipeline_id = p
                                  /\ drift_events[i].resolved_at = None}
              IN  /\ last_health'.is_drifted = (open # {})
                  /\ open # {} =>
                        /\ last_health'.event # None
                        /\ \A i \in open : i <= Unwrap(last_health'.event)
                        /\ Unwrap(last_health'.event) \in open]_vars

-----------------------------------------------------------------------------
(***************************************************************************)
(* Properties of the execution engine over a store with more Running       *)
(* pipelines than a page of the reconcile query.                           *)
(***************************************************************************)

\* C37: no step stops, aborts or removes from the map the runner of a
\* pipeline whose status is Running before and after the step.
C37_RunningRunnerKept ==
    [][\A id \in DOMAIN runners :
          ( /\ id \in DOMAIN pipelines /\ pipelines[id].status = "Running"
            /\ id \in DOMAIN pipelines' /\ pipelines'[id].status = "Running" )
          => /\ id \in DOMAIN MapOf(robj')
             /\ MapOf(robj')[id] = runners[id]]_vars

-----------------------------------------------------------------------------
(***************************************************************************)
(* Properties of the pipeline registry.                                    *)
(***************************************************************************)

\* C38: between calls, by_name maps (name, namespace) to id if and only if
\* pipelines holds an entry with that id, name and namespace; so
\* get_by_name of a registered entry's name and namespace returns that
\* entry as long as it is registered.
C38_IndexConsistent ==
    /\ \A id \in 1..MaxEntryIds, name \in {"a", "b"}, namespace \in {"default", "prod"} :
          (<<name, namespace>> \in DOMAIN by_name /\ by_name[<<name, namespace>>] = id)
              <=> ( /\ id \in DOMAIN registry_pipelines
                    /\ registry_pipelines[id].name = name
                    /\ registry_pipelines[id].namespace = namespace )
    /\ \A id \in DOMAIN registry_pipelines :
          GetByNameResult(registry_pipelines[id].name, registry_pipelines[id].namespace)
              = Some(registry_pipelines[id])

-----------------------------------------------------------------------------
(***************************************************************************)
(* Properties of the batch processor.                                      *)
(***************************************************************************)

\* C39: with batch_size >= 1, the batches returned so far by add and flush,
\* one after the other, followed by the buffer are the vectors added, in
\* arrival order; and a batch returned by add has exactly batch_size items.
C39_BatchesPreserveArrivals ==
    bp.batch_size >= 1 =>
        /\ bh.returned \o bp.buffer = [i \in 1..Len(bh.added) |-> i]
        /\ bh.added = [i \in 1..Len(bh.added) |-> i]
        /\ (bh.op = "add" /\ bh.ret # None) => Len(Unwrap(bh.ret)) = bp.batch_size

\* C39 witness: add returns a full batch of a processor of batch_size 2 after
\* a flush has returned a partial batch.
C39_Witness ==
    /\ bp.batch_size = 2
    /\ bh.op = "add"
    /\ bh.ret # None
    /\ bh.flushes >= 1
    /\ Len(bh.returned) = 3

-----------------------------------------------------------------------------
(***************************************************************************)
(* Properties of Sampler::sample on a reservoir sampler.                   *)
(***************************************************************************)

\* C40: in ReservoirSampling mode an example that an earlier sample() call
\* returned is not returned again, neither by a later sample() call nor by
\* drain_reservoir.
C40_HandedOverOnce ==
    [][/\ (\E k \in 0..MaxSampleLen : SampleBatch(k)) =>
              Elems(Unwrap(last_sample')) \cap sampled_out = {}
       /\ DrainReservoir => Elems(drained'.samples) \cap sampled_out = {}]_vars

=============================================================================
